---- MODULE Spec2Model ----
(***************************************************************************)
(* Model of the motion-extraction pipeline of Python-Funscript-Editor:     *)
(*   funscript_editor/algorithms/funscriptgenerator.py  (FunscriptGenerator)*)
(*   funscript_editor/algorithms/signal.py              (Signal)           *)
(*                                                                         *)
(* Real numbers (Python float / numpy float64) are modelled as exact       *)
(* rationals <<n, d>> in lowest terms with d > 0, so the arithmetic of the *)
(* code is followed without rounding error.                                *)
(***************************************************************************)
EXTENDS Integers, Sequences, FiniteSets, TLC

VARIABLES
    params,        \* FunscriptGeneratorParameter + HYPERPARAMETER/min_frames + video fps
    bboxes,        \* self.bboxes: [Woman |-> Seq(box), Men |-> Seq(box)]
    score,         \* self.score:  [x |-> Seq(rat), y |-> Seq(rat)]
    tracking_fps,  \* self.tracking_fps
    frame_num,     \* local frame_num of tracking()
    last_frame,    \* local last_frame of tracking(): TRUE when a frame is held
    bboxWoman,     \* local bboxWoman of tracking()
    bboxMen,       \* local bboxMen of tracking()
    status,        \* local status of tracking() / run()
    video,         \* the FFmpegStream: [left, open, stopped]
    trackers,      \* per target: frames submitted by update() and not yet fetched by result()
    calib,         \* calibration dialogue: [asked |-> number of min_max_selector calls]
    idx_dict,      \* local idx_dict of run()
    output_score,  \* local output_score of run()
    funscript,     \* actions handed to Funscript.add_action
    completed,     \* emissions of the funscriptCompleted signal
    pc,            \* position of the control thread
    call,          \* arguments of a Signal / helper call under test
    ret,           \* its result
    keypress_queue,\* self.keypress_queue, oldest key first
    listener,      \* keyboard listener thread inside on_key_press
    control,       \* control thread inside a poll of the keypress queue
    PROJECTION,    \* PROJECTION[self.params.projection], the shared projection record
    config         \* local config of get_vr/get_flat_projection_config: what it refers to

vars == <<params, bboxes, score, tracking_fps, frame_num, last_frame, bboxWoman,
          bboxMen, status, video, trackers, calib, idx_dict, output_score,
          funscript, completed, pc, call, ret, keypress_queue, listener, control,
          PROJECTION, config>>

keyVars == <<keypress_queue, listener, control>>

projVars == <<PROJECTION, config>>

pipeVars == <<params, bboxes, score, tracking_fps, frame_num, last_frame, bboxWoman,
              bboxMen, status, video, trackers, calib, idx_dict, output_score,
              funscript, completed, pc>>

----------------------------------------------------------------------------
(* Exact rational arithmetic *)

Abs(n) == IF n < 0 THEN -n ELSE n

RECURSIVE GCD(_, _)
GCD(a, b) == IF b = 0 THEN a ELSE GCD(b, a % b)

\* the rational n/d (d # 0) in lowest terms with positive denominator
Rat(n, d) ==
    LET s == IF d < 0 THEN -1 ELSE 1
        g == GCD(Abs(n), Abs(d))
    IN  IF n = 0 THEN <<0, 1>> ELSE <<(s * n) \div g, (s * d) \div g>>

R(n) == <<n, 1>>
RAdd(a, b) == Rat(a[1] * b[2] + b[1] * a[2], a[2] * b[2])
RSub(a, b) == Rat(a[1] * b[2] - b[1] * a[2], a[2] * b[2])
RMul(a, b) == Rat(a[1] * b[1], a[2] * b[2])
RDiv(a, b) == Rat(a[1] * b[2], a[2] * b[1])
RLt(a, b) == a[1] * b[2] < b[1] * a[2]
RLe(a, b) == a[1] * b[2] <= b[1] * a[2]
RAbs(a) == <<Abs(a[1]), a[2]>>
RIsInt(a) == a[2] = 1

\* floor of a rational
RFloor(a) == a[1] \div a[2]

\* Python int(float): truncation toward zero
PyInt(a) == IF a[1] >= 0 THEN a[1] \div a[2] ELSE -((-a[1]) \div a[2])

\* Python round(float): round half to even
PyRound(a) ==
    LET f == RFloor(a)
        r == a[1] - f * a[2]
    IN  IF 2 * r < a[2] THEN f
        ELSE IF 2 * r > a[2] THEN f + 1
        ELSE IF f % 2 = 0 THEN f ELSE f + 1

RECURSIVE RSum(_)
RSum(s) == IF s = <<>> THEN R(0) ELSE RAdd(s[1], RSum(Tail(s)))

\* Python min(list) / max(list) of a non-empty list
RECURSIVE RMin(_)
RMin(s) == IF Len(s) = 1 THEN s[1]
           ELSE LET m == RMin(Tail(s)) IN IF RLe(s[1], m) THEN s[1] ELSE m

RECURSIVE RMax(_)
RMax(s) == IF Len(s) = 1 THEN s[1]
           ELSE LET m == RMax(Tail(s)) IN IF RLe(m, s[1]) THEN s[1] ELSE m

\* numpy.mean
Mean(x) == RDiv(RSum(x), R(Len(x)))

----------------------------------------------------------------------------
(* signal.py: signalParameter defaults *)

avg_sec_for_local_min_max_extraction == 2
additional_points_merge_time_threshold_in_ms == 110
distance_minimization_threshold == 20
high_second_derivative_points_threshold == <<6, 5>>     \* 1.2
direction_change_filter_len == 3
additional_points_merge_distance_threshold == 10

\* list.sort() on a list of integers (insertion sort, stable)
RECURSIVE InsertSorted(_, _)
InsertSorted(s, v) ==
    IF s = <<>> THEN <<v>>
    ELSE IF v < s[1] THEN <<v>> \o s
    ELSE <<s[1]>> \o InsertSorted(Tail(s), v)

RECURSIVE SortInts(_)
SortInts(s) == IF s = <<>> THEN <<>>
               ELSE InsertSorted(SortInts(SubSeq(s, 1, Len(s) - 1)), s[Len(s)])

\* numpy.convolve(x, ones(m), 'valid'): the sums of all windows of the shorter
\* operand over the longer one; the operands are swapped when len(x) < m
ConvolveValid(x, m) ==
    LET n == Len(x) IN
    IF n >= m
    THEN [j \in 1..(n - m + 1) |-> RSum(SubSeq(x, j, j + m - 1))]
    ELSE [j \in 1..(m - n + 1) |-> RSum(x)]

\* moving_average with the w == 1 test ahead of the short-signal test
moving_average_w1_first(x, w) ==
    IF Len(x) = 0 THEN <<>>
    ELSE IF w = 1 THEN x
    ELSE IF Len(x) <= w + 1 THEN [i \in 1..Len(x) |-> Mean(x)]
    ELSE LET c   == ConvolveValid(x, 2 * w)
             avg == [j \in 1..Len(c) |-> RDiv(c[j], R(2 * w))]
             pad == IF Len(x) - (Len(avg) + w) > 0 THEN Len(x) - (Len(avg) + w) ELSE 0
         IN  [i \in 1..w |-> avg[1]] \o avg \o [i \in 1..pad |-> avg[Len(avg)]]

\* Signal.moving_average(x, w) for an integer window w >= 1
moving_average(x, w) ==
    IF Len(x) = 0 THEN <<>>
    ELSE IF Len(x) <= w + 1 THEN [i \in 1..Len(x) |-> Mean(x)]
    ELSE IF w = 1 THEN x
    ELSE LET c   == ConvolveValid(x, 2 * w)
             avg == [j \in 1..Len(c) |-> RDiv(c[j], R(2 * w))]
             pad == IF Len(x) - (Len(avg) + w) > 0 THEN Len(x) - (Len(avg) + w) ELSE 0
         IN  [i \in 1..w |-> avg[1]] \o avg \o [i \in 1..pad |-> avg[Len(avg)]]

\* A Python call either returns a value or raises
Return(v) == [err |-> "none", val |-> v]
Raise(e) == [err |-> e, val |-> <<>>]

\* Signal.scale(signal, lower, upper); lower and upper are rationals.
\* A signal of two or more equal values divides by signal_max - signal_min = 0:
\* its first element is a Python number, so the division raises.
scale(signal, lower, upper) ==
    IF Len(signal) = 0 THEN Return(signal)
    ELSE IF Len(signal) = 1 THEN Return(<<lower>>)
    ELSE LET signal_min == RMin(signal)
             signal_max == RMax(signal)
         IN  IF signal_max = signal_min THEN Raise("ZeroDivisionError")
             ELSE Return([i \in 1..Len(signal) |->
                     RAdd(RDiv(RMul(RSub(upper, lower), RSub(signal[i], signal_min)),
                               RSub(signal_max, signal_min)),
                          lower)])

\* signal[i .. i+filter_len] (0-based) is strictly decreasing or strictly increasing
MonotoneAt(signal, i, filter_len) ==
    \/ \A j \in 0..(filter_len - 1) : RLt(signal[i + j + 2], signal[i + j + 1])
    \/ \A j \in 0..(filter_len - 1) : RLt(signal[i + j + 1], signal[i + j + 2])

\* the list filtered_indexe of get_direction_changes
filtered_indexe(signal, filter_len) ==
    LET all == [k \in 1..(Len(signal) - filter_len) |-> k - 1]
        Keep(i) == MonotoneAt(signal, i, filter_len)
    IN  SelectSeq(all, Keep)

\* the for loop of get_direction_changes over zip(filtered_indexe, direction)
RECURSIVE ChangepointLoop(_, _, _, _, _, _)
ChangepointLoop(fi, direction, k, start_position, current_direction, changepoints) ==
    IF k > Len(direction) THEN changepoints
    ELSE IF direction[k] # current_direction
    THEN ChangepointLoop(fi, direction, k + 1, start_position, direction[k],
                         Append(changepoints, fi[k] + start_position))
    ELSE ChangepointLoop(fi, direction, k + 1, start_position, current_direction,
                         changepoints)

\* Signal.get_direction_changes(signal, filter_len)
get_direction_changes(signal, filter_len) ==
    IF Len(signal) < filter_len THEN <<>>
    ELSE LET fi == filtered_indexe(signal, filter_len) IN
         IF Len(fi) < 2 THEN <<>>
         ELSE LET direction == [i \in 1..(Len(fi) - 1) |->
                                   IF RLt(signal[fi[i + 1] + 1], signal[fi[i] + 1])
                                   THEN -1 ELSE 1]
              IN  ChangepointLoop(fi, direction, 1, fi[1], direction[1], <<>>)

\* Signal.find_nearest(array, value, side) on a list of integers; 1-based pos
RECURSIVE LeftScan(_, _, _, _)
LeftScan(array, value, i, pos) ==
    IF i > Len(array) THEN pos
    ELSE IF value <= array[i] THEN pos
    ELSE LeftScan(array, value, i + 1, i)

RECURSIVE RightScan(_, _, _, _)
RightScan(array, value, i, pos) ==
    IF i < 1 THEN pos
    ELSE IF value >= array[i] THEN pos
    ELSE RightScan(array, value, i - 1, i)

\* find_nearest answering the search value itself on an empty list
find_nearest_empty_ok(array, value, side) ==
    IF side = "left"
    THEN IF Len(array) = 0 THEN Return(value)
         ELSE Return(array[LeftScan(array, value, 1, 1)])
    ELSE IF side = "right"
    THEN IF Len(array) = 0 THEN Return(value)
         ELSE Return(array[RightScan(array, value, Len(array), Len(array))])
    ELSE Raise("NotImplementedError")

\* find_nearest whose left search always answers the first element
find_nearest_first(array, value, side) ==
    IF side = "left"
    THEN IF Len(array) = 0 THEN Raise("IndexError")
         ELSE Return(array[1])
    ELSE IF side = "right"
    THEN IF Len(array) = 0 THEN Raise("IndexError")
         ELSE Return(array[RightScan(array, value, Len(array), Len(array))])
    ELSE Raise("NotImplementedError")

find_nearest(array, value, side) ==
    IF side = "left"
    THEN IF Len(array) = 0 THEN Raise("IndexError")
         ELSE Return(array[LeftScan(array, value, 1, 1)])
    ELSE IF side = "right"
    THEN IF Len(array) = 0 THEN Raise("IndexError")
         ELSE Return(array[RightScan(array, value, Len(array), Len(array))])
    ELSE Raise("NotImplementedError")

\* merge_time_threshold of Signal.merge_points
\* merge_points without a temporal guard
merge_time_threshold_none(fps) == R(0)

\* merge_time_threshold in Signal.merge_points
merge_time_threshold(fps) ==
    LET t == RDiv(R(PyRound(RMul(fps, R(additional_points_merge_time_threshold_in_ms)))), R(1000))
    IN  IF RLe(t, R(1)) THEN R(1) ELSE t

\* bisect.insort(merged_points, idx)
RECURSIVE insort(_, _)
insort(s, v) ==
    IF s = <<>> THEN <<v>>
    ELSE IF v < s[1] THEN <<v>> \o s
    ELSE <<s[1]>> \o insort(Tail(s), v)

\* distance < additional_points_merge_distance_threshold in Signal.merge_points,
\* with distance = |cross(end - start, start - P)| / |end - start|.  Indices
\* are 0-based as in the code; signal is 1-based here.  When signal[p1] = signal[p2]
\* the quotient is 0/0 = nan and the comparison is False.
DistanceBelowThreshold(signal, p1, p2, idx) ==
    LET s1 == signal[p1 + 1]
        s2 == signal[p2 + 1]
        min_pos == IF RLe(s1, s2) THEN s1 ELSE s2
        max_pos == IF RLe(s1, s2) THEN s2 ELSE s1
        a0 == RSub(max_pos, min_pos)
        a1 == RSub(s2, s1)
        sc == RAdd(RDiv(RMul(RSub(max_pos, min_pos), R(idx - p1)), R(p2 - p1)), min_pos)
        b0 == RSub(min_pos, sc)
        b1 == RSub(s1, signal[idx + 1])
        cross == RSub(RMul(a0, b1), RMul(a1, b0))
        norm2 == RAdd(RMul(a0, a0), RMul(a1, a1))
        thr == R(additional_points_merge_distance_threshold)
    IN  IF norm2 = R(0) THEN FALSE
        ELSE RLt(RMul(cross, cross), RMul(RMul(thr, thr), norm2))

\* the loop of Signal.merge_points over additional_points[i..]
RECURSIVE MergeLoop(_, _, _, _, _)
MergeLoop(signal, fps, merged_points, additional_points, i) ==
    IF i > Len(additional_points) THEN Return(merged_points)
    ELSE LET idx == additional_points[i]
             near == \E j \in 1..Len(merged_points) :
                        RLe(R(Abs(idx - merged_points[j])), merge_time_threshold(fps))
         IN  IF near THEN MergeLoop(signal, fps, merged_points, additional_points, i + 1)
             ELSE LET n1 == find_nearest(merged_points, idx, "left")
                      n2 == find_nearest(merged_points, idx, "right")
                      p1 == n1.val
                      p2 == n2.val
                  IN  IF n1.err # "none" THEN Raise(n1.err)
                      ELSE IF n2.err # "none" THEN Raise(n2.err)
                      ELSE IF p1 >= p2
                      THEN MergeLoop(signal, fps, merged_points, additional_points, i + 1)
                      ELSE IF DistanceBelowThreshold(signal, p1, p2, idx)
                      THEN MergeLoop(signal, fps, merged_points, additional_points, i + 1)
                      ELSE MergeLoop(signal, fps, insort(merged_points, idx),
                                     additional_points, i + 1)

\* Signal.merge_points(signal, base_points, additional_points)
merge_points(signal, fps, base_points, additional_points) ==
    MergeLoop(signal, fps, SortInts(base_points), additional_points, 1)

\* the window round(self.fps * self.params.avg_sec_for_local_min_max_extraction)
AvgWindow(fps) == PyRound(RMul(fps, R(avg_sec_for_local_min_max_extraction)))

\* the loop of Signal.get_local_min_max_points from 0-based position pos on
RECURSIVE LocalMinMaxLoop(_, _, _, _, _, _)
LocalMinMaxLoop(smothed_signal, avg, pos, points, tmp_min_idx, tmp_max_idx) ==
    IF pos >= Len(smothed_signal) THEN points
    ELSE LET sp == smothed_signal[pos + 1]
             below == RLt(sp, avg[pos + 1])
             above == RLt(avg[pos + 1], sp)
             min1 == IF below
                     THEN IF tmp_min_idx < 0 THEN pos
                          ELSE IF RLe(sp, smothed_signal[tmp_min_idx + 1]) THEN pos
                          ELSE tmp_min_idx
                     ELSE -1
             pts1 == IF ~below /\ tmp_min_idx >= 0 THEN Append(points, tmp_min_idx) ELSE points
             max1 == IF above
                     THEN IF tmp_max_idx < 0 THEN pos
                          ELSE IF RLe(smothed_signal[tmp_max_idx + 1], sp) THEN pos
                          ELSE tmp_max_idx
                     ELSE -1
             pts2 == IF ~above /\ tmp_max_idx >= 0 THEN Append(pts1, tmp_max_idx) ELSE pts1
         IN  LocalMinMaxLoop(smothed_signal, avg, pos + 1, pts2, min1, max1)

\* Signal.get_local_min_max_points(signal, filter_len)
get_local_min_max_points(signal, fps, filter_len) ==
    LocalMinMaxLoop(moving_average(signal, filter_len),
                    moving_average(signal, AvgWindow(fps)), 0, <<>>, -1, -1)

\* the value numpy gives 0.0 / 0.0
NaN == <<0, 0>>

\* numpy.diff(x, 1)
Diff(x) == [i \in 1..(Len(x) - 1) |-> RSub(x[i + 1], x[i])]

\* Signal.second_derivative(x) with the default window w = 1
second_derivative(x) == moving_average(Diff(moving_average(Diff(x), 1)), 1)

\* numpy.std(x) squared: the mean of the squares less the square of the mean
StdSquared(x) ==
    LET m == Mean(x)
    IN  RSub(Mean([i \in 1..Len(x) |-> RMul(x[i], x[i])]), RMul(m, m))

\* Signal.moving_standard_deviation(x, w), every element kept as its square
moving_standard_deviation_squared(x, w) ==
    IF Len(x) = 0 THEN <<>>
    ELSE IF Len(x) - w <= w THEN [i \in 1..Len(x) |-> StdSquared(x)]
    ELSE LET std == [k \in 1..(Len(x) - 2 * w) |-> StdSquared(SubSeq(x, k, k + 2 * w))]
         IN  [i \in 1..w |-> std[1]] \o std \o [i \in 1..w |-> std[Len(std)]]

\* the loop of get_high_second_derivative_points from 0-based position pos on;
\* abs(dx2) > alpha * std is compared through the squares of both sides
RECURSIVE HighDerivativeLoop(_, _, _, _, _, _)
HighDerivativeLoop(dx2_abs, std2, alpha, pos, changepoints, tmp_max_idx) ==
    IF pos >= Len(dx2_abs) THEN changepoints
    ELSE IF RLt(RMul(RMul(alpha, alpha), std2[pos + 1]),
                RMul(dx2_abs[pos + 1], dx2_abs[pos + 1]))
    THEN HighDerivativeLoop(dx2_abs, std2, alpha, pos + 1, changepoints,
             IF tmp_max_idx < 0 \/ RLe(dx2_abs[tmp_max_idx + 1], dx2_abs[pos + 1])
             THEN pos ELSE tmp_max_idx)
    ELSE IF tmp_max_idx >= 0
    THEN HighDerivativeLoop(dx2_abs, std2, alpha, pos + 1,
                            Append(changepoints, tmp_max_idx), -1)
    ELSE HighDerivativeLoop(dx2_abs, std2, alpha, pos + 1, changepoints, tmp_max_idx)

\* Signal.get_high_second_derivative_points(signal, alpha)
get_high_second_derivative_points(signal, fps, alpha) ==
    LET dx2 == second_derivative(signal)
        dx2_abs == [i \in 1..Len(dx2) |-> RAbs(dx2[i])]
        std2 == moving_standard_deviation_squared(dx2, AvgWindow(fps))
    IN  HighDerivativeLoop(dx2_abs, std2, alpha, 0, <<>>, -1)

\* the square of one element of distances in get_edge_points: the distance of
\* the signal at 0-based index j from the line between the base points p1 < p2;
\* nan (0/0) when the signal is equal at both base points
EdgeDistanceSquared(signal, p1, p2, j) ==
    LET s1 == signal[p1 + 1]
        s2 == signal[p2 + 1]
        min_pos == IF RLe(s1, s2) THEN s1 ELSE s2
        max_pos == IF RLe(s1, s2) THEN s2 ELSE s1
        a0 == RSub(max_pos, min_pos)
        a1 == RSub(s2, s1)
        sc == RAdd(RDiv(RMul(a0, R(j - p1)), R(p2 - p1)), min_pos)
        b0 == RSub(min_pos, sc)
        b1 == RSub(s1, signal[j + 1])
        cross == RSub(RMul(a0, b1), RMul(a1, b0))
        norm2 == RAdd(RMul(a0, a0), RMul(a1, a1))
    IN  IF norm2 = R(0) THEN NaN ELSE RDiv(RMul(cross, cross), norm2)

\* the for loop of get_edge_points over the pairs base_points[i], base_points[i+1]
RECURSIVE EdgeLoop(_, _, _, _, _)
EdgeLoop(signal, base_points, threshold, i, edge_points) ==
    IF i > Len(base_points) - 1 THEN Return(edge_points)
    ELSE LET p1 == base_points[i]
             p2 == base_points[i + 1]
             distances == [k \in 1..(p2 - p1) |->
                              EdgeDistanceSquared(signal, p1, p2, p1 + k - 1)]
         IN  IF p2 - p1 <= 0 THEN Raise("ValueError")
             ELSE IF distances[1] = NaN
             THEN EdgeLoop(signal, base_points, threshold, i + 1, edge_points)
             ELSE LET max_distance == RMax(distances)
                      first == CHOOSE k \in 1..Len(distances) :
                                  /\ distances[k] = max_distance
                                  /\ \A l \in 1..(k - 1) : distances[l] # max_distance
                  IN  IF RLt(R(threshold * threshold), max_distance)
                      THEN EdgeLoop(signal, base_points, threshold, i + 1,
                                    Append(edge_points, p1 + first - 1))
                      ELSE EdgeLoop(signal, base_points, threshold, i + 1, edge_points)

\* Signal.get_edge_points(signal, base_points, threshold); base_points is
\* sorted in place before the loop
get_edge_points(signal, base_points, threshold) ==
    IF Len(base_points) < 2 THEN Return(<<>>)
    ELSE EdgeLoop(signal, SortInts(base_points), threshold, 1, <<>>)

\* the for loop of Signal.decimate over additional_points_algorithms[i..]
RECURSIVE DecimateLoop(_, _, _, _, _)
DecimateLoop(signal, fps, decimated_indexes, algos, i) ==
    IF i > Len(algos) THEN Return(decimated_indexes)
    ELSE IF algos[i] = "high_second_derivative"
    THEN LET additional_indexes ==
                 get_high_second_derivative_points(signal, fps,
                     high_second_derivative_points_threshold)
             merged == merge_points(signal, fps, decimated_indexes, additional_indexes)
         IN  IF Len(additional_indexes) = 0
             THEN DecimateLoop(signal, fps, decimated_indexes, algos, i + 1)
             ELSE IF merged.err # "none" THEN merged
             ELSE DecimateLoop(signal, fps, merged.val, algos, i + 1)
    ELSE IF algos[i] = "distance_minimization"
    THEN LET edge == get_edge_points(signal, decimated_indexes,
                                     distance_minimization_threshold)
             sorted == IF Len(decimated_indexes) < 2 THEN decimated_indexes
                       ELSE SortInts(decimated_indexes)
             merged == merge_points(signal, fps, sorted, edge.val)
         IN  IF edge.err # "none" THEN edge
             ELSE IF Len(edge.val) = 0
             THEN DecimateLoop(signal, fps, sorted, algos, i + 1)
             ELSE IF merged.err # "none" THEN merged
             ELSE DecimateLoop(signal, fps, merged.val, algos, i + 1)
    ELSE Raise("NotImplementedError")

\* Signal.decimate(signal, base_point_algorithm, additional_points_algorithms)
decimate(signal, fps, base_point_algorithm, additional_points_algorithms) ==
    IF base_point_algorithm = "direction_changes"
    THEN DecimateLoop(signal, fps,
                      get_direction_changes(signal, direction_change_filter_len),
                      additional_points_algorithms, 1)
    ELSE IF base_point_algorithm = "local_min_max"
    THEN DecimateLoop(signal, fps, get_local_min_max_points(signal, fps, 3),
                      additional_points_algorithms, 1)
    ELSE Raise("NotImplementedError")

\* the loop of Signal.categorize_points over points[i..]
RECURSIVE CategorizeLoop(_, _, _, _, _)
CategorizeLoop(smothed_signal, avg, points, i, grouped_points) ==
    IF i > Len(points) THEN grouped_points
    ELSE LET idx == points[i] IN
         CategorizeLoop(smothed_signal, avg, points, i + 1,
             IF RLt(avg[idx + 1], smothed_signal[idx + 1])
             THEN [grouped_points EXCEPT !.max = Append(@, idx)]
             ELSE [grouped_points EXCEPT !.min = Append(@, idx)])

\* categorize_points with the two groups exchanged
categorize_points_swapped(signal, fps, points) ==
    LET g == CategorizeLoop(moving_average(signal, 3), moving_average(signal, AvgWindow(fps)),
                            points, 1, [min |-> <<>>, max |-> <<>>])
    IN  [min |-> g.max, max |-> g.min]

\* Signal.categorize_points(signal, points)
categorize_points(signal, fps, points) ==
    CategorizeLoop(moving_average(signal, 3), moving_average(signal, AvgWindow(fps)),
                   points, 1, [min |-> <<>>, max |-> <<>>])

\* signalprocessing.get_local_max_and_min_idx(score, fps): the local extrema of
\* the score, split into the min and the max group
get_local_max_and_min_idx(sc, fps) ==
    categorize_points(sc, fps, get_local_min_max_points(sc, fps, 3))

----------------------------------------------------------------------------
(* funscriptgenerator.py: helpers of FunscriptGenerator.  A box is a tuple  *)
(* <<x, y, w, h>> of rationals.                                             *)

\* numpy.interp(i, [0, n], [a, b]) for 0 <= i <= n
interp(i, n, a, b) == RAdd(a, RDiv(RMul(RSub(b, a), R(i)), R(n)))

\* the for loop of append_interpolated_bbox, from step i on; every step reads
\* the current last element of the list it appends to
RECURSIVE InterpolateLoop(_, _, _, _)
InterpolateLoop(traj, bbox, skip_frames, i) ==
    IF i > skip_frames THEN traj
    ELSE LET last == traj[Len(traj)]
             box  == [c \in 1..4 |-> interp(i, skip_frames + 1, last[c], bbox[c])]
         IN  InterpolateLoop(Append(traj, box), bbox, skip_frames, i + 1)

\* append_interpolated_bbox without the boxes of the skipped frames
append_interpolated_bbox_no_fill(bbs, skip_frames, bbox, target) ==
    [bbs EXCEPT ![target] = Append(bbs[target], bbox)]

\* FunscriptGenerator.append_interpolated_bbox(bbox, target) on self.bboxes = bbs
append_interpolated_bbox(bbs, skip_frames, bbox, target) ==
    [bbs EXCEPT ![target] =
        Append(IF skip_frames > 0 /\ Len(bbs[target]) > 0
               THEN InterpolateLoop(bbs[target], bbox, skip_frames, 1)
               ELSE bbs[target],
               bbox)]

\* del list[i] for a 0-based index i (the loop below only deletes existing
\* indices while both lists are equally long)
DelAt(s, i) ==
    IF i + 1 \in 1..Len(s) THEN SubSeq(s, 1, i) \o SubSeq(s, i + 2, Len(s)) ELSE s

\* the for loop of delete_last_tracking_predictions: i runs over
\* range(start, stop, -1), that is start, start-1, ..., stop+1
RECURSIVE DeleteLoop(_, _, _, _)
DeleteLoop(bbs, track_men, i, stop) ==
    IF i <= stop THEN bbs
    ELSE DeleteLoop([Woman |-> DelAt(bbs.Woman, i),
                     Men   |-> IF track_men THEN DelAt(bbs.Men, i) ELSE bbs.Men],
                    track_men, i - 1, stop)

\* delete_last_tracking_predictions whose loop forgets the second trajectory
delete_last_tracking_predictions_first_only(bbs, track_men, num) ==
    IF Len(bbs.Woman) <= num - 1
    THEN [Woman |-> <<>>, Men |-> <<>>]
    ELSE DeleteLoop(bbs, FALSE, Len(bbs.Woman) - 1, Len(bbs.Woman) - num)

\* FunscriptGenerator.delete_last_tracking_predictions(num) on self.bboxes = bbs
delete_last_tracking_predictions(bbs, track_men, num) ==
    IF Len(bbs.Woman) <= num - 1
    THEN [Woman |-> <<>>, Men |-> <<>>]
    ELSE DeleteLoop(bbs, track_men, Len(bbs.Woman) - 1, Len(bbs.Woman) - num)

\* FunscriptGenerator.get_average_tracking_fps
get_average_tracking_fps(fps_list) ==
    IF Len(fps_list) < 1 THEN R(1) ELSE RDiv(RSum(fps_list), R(Len(fps_list)))

Min2(a, b) == IF a <= b THEN a ELSE b


\* Signal.scale on a list of numpy floats: the division by signal_max -
\* signal_min = 0 warns and yields nan in every position instead of raising
scale_numpy(signal, lower, upper) ==
    IF Len(signal) >= 2 /\ RMin(signal) = RMax(signal)
    THEN Return([i \in 1..Len(signal) |-> NaN])
    ELSE scale(signal, lower, upper)

\* the unscaled difference score of calculate_score for component c (1 = x, 2 = y)
RawScore(bbs, track_men, c) ==
    IF track_men
    THEN [i \in 1..Min2(Len(bbs.Woman), Len(bbs.Men)) |-> RSub(bbs.Men[i][c], bbs.Woman[i][c])]
    ELSE [i \in 1..Len(bbs.Woman) |->
              RSub(RMax([j \in 1..Len(bbs.Woman) |-> bbs.Woman[j][c]]), bbs.Woman[i][c])]

\* FunscriptGenerator.calculate_score: the value left in self.score and the
\* exception raised, if any.  self.score holds the unscaled lists when the
\* scaling of x raises, and the scaled x with the unscaled y when that of y does.
calculate_score(bbs, track_men) ==
    LET rx == RawScore(bbs, track_men, 1)
        ry == RawScore(bbs, track_men, 2)
        sx == scale(rx, R(0), R(100))
        sy == scale(ry, R(0), R(100))
    IN  IF sx.err # "none" THEN [err |-> sx.err, val |-> [x |-> rx, y |-> ry]]
        ELSE IF sy.err # "none" THEN [err |-> sy.err, val |-> [x |-> sx.val, y |-> ry]]
        ELSE [err |-> "none", val |-> [x |-> sx.val, y |-> sy.val]]

\* calculate_score on boxes whose coordinates are numpy floats (interpolated
\* boxes are): nothing raises
calculate_score_numpy(bbs, track_men) ==
    [err |-> "none",
     val |-> [x |-> scale_numpy(RawScore(bbs, track_men, 1), R(0), R(100)).val,
              y |-> scale_numpy(RawScore(bbs, track_men, 2), R(0), R(100)).val]]

\* apply_shift without the upper bound test on the shifted index
apply_shift_no_upper_test(p, len_y, frame_number, position) ==
    IF /\ position \in {"max", "top"}
       /\ p.direction # "x"
       /\ frame_number >= -1 * p.shift_top_points
    THEN p.start_frame + frame_number + p.shift_top_points
    ELSE IF /\ position \in {"min", "bottom"}
            /\ p.direction # "x"
            /\ frame_number >= -1 * p.shift_bottom_points
    THEN p.start_frame + frame_number + p.shift_bottom_points
    ELSE p.start_frame + frame_number

\* FunscriptGenerator.apply_shift(frame_number, position); len_y = len(self.score['y'])
apply_shift(p, len_y, frame_number, position) ==
    IF /\ position \in {"max", "top"}
       /\ p.direction # "x"
       /\ frame_number >= -1 * p.shift_top_points
       /\ frame_number + p.shift_top_points < len_y
    THEN p.start_frame + frame_number + p.shift_top_points
    ELSE IF /\ position \in {"min", "bottom"}
            /\ p.direction # "x"
            /\ frame_number >= -1 * p.shift_bottom_points
            /\ frame_number + p.shift_bottom_points < len_y
    THEN p.start_frame + frame_number + p.shift_bottom_points
    ELSE p.start_frame + frame_number

\* max(( lo, min(( hi, v )) ))
Clamp(lo, hi, v) ==
    LET m == IF RLe(hi, v) THEN hi ELSE v IN IF RLe(m, lo) THEN lo ELSE m

\* one for loop of get_score_with_offset: add offset at the 0-based indices idxs[i..]
RECURSIVE OffsetLoop(_, _, _, _, _, _)
OffsetLoop(sc, idxs, i, offset, score_min, score_max) ==
    IF i > Len(idxs) THEN sc
    ELSE OffsetLoop([sc EXCEPT ![idxs[i] + 1] = Clamp(score_min, score_max, RAdd(@, offset))],
                    idxs, i + 1, offset, score_min, score_max)

\* FunscriptGenerator.get_score_with_offset(idx_dict) for a non-empty score
get_score_with_offset(p, sc, idxs) ==
    IF p.direction = "x" THEN sc.x
    ELSE LET score_min == RMin(sc.y)
             score_max == RMax(sc.y)
             s1 == OffsetLoop(sc.y, idxs.min, 1, p.bottom_points_offset, score_min, score_max)
         IN  OffsetLoop(s1, idxs.max, 1, p.top_points_offset, score_min, score_max)

\* the position argument of the add_action calls of run() for the min group
MinPosition(p, out, idx) ==
    IF RLt(out[idx + 1], RAdd(RMin(out), p.bottom_threshold))
    THEN RMin(out)
    ELSE R(PyRound(out[idx + 1]))

\* MaxPosition without the top_threshold test of line 802
MaxPosition_rounded(p, out, idx) == R(PyRound(out[idx + 1]))

\* the position argument of the add_action calls of run() for the max group
MaxPosition(p, out, idx) ==
    IF RLt(RSub(RMax(out), p.top_threshold), out[idx + 1])
    THEN RMax(out)
    ELSE R(PyRound(out[idx + 1]))

----------------------------------------------------------------------------
(* Bounds and input sets of the pipeline specification *)

MaxSkip == 2        \* largest skip_frames explored
MaxFrames == 8      \* most frames the stream delivers after the seed frame

Box(x, y, w, h) == <<R(x), R(y), R(w), R(h)>>

\* boxes the operator selects in get_bbox
WomanSeeds == {Box(4, 7, 9, 12)}
MenSeeds == {Box(2, 3, 9, 9)}
\* boxes the trackers report
WomanBoxes == {Box(1, 1, 9, 9), Box(4, 7, 9, 12)}
MenBoxes == {Box(2, 3, 9, 9)}
\* values drawFPS measures
FpsSamples == {<<8, 5>>}
\* trackbar positions <<Min, Max>> the operator confirms in min_max_selector
TrackbarPairs == {<<20, 80>>, <<80, 20>>}
EndFrames == {-1, 6}
MinFrames == {4}
VideoFrames == {2, MaxFrames}

NoParams == [start_frame |-> 0, end_frame |-> -1, track_men |-> FALSE, skip_frames |-> 0,
             direction |-> "y", shift_bottom_points |-> 0, shift_top_points |-> 0,
             top_points_offset |-> R(0), bottom_points_offset |-> R(0),
             top_threshold |-> R(0), bottom_threshold |-> R(0), min_frames |-> 0,
             fps |-> R(1)]

\* parameter records of the pipeline specification
PipelineParams ==
    { [NoParams EXCEPT !.end_frame = e, !.track_men = t, !.skip_frames = k,
                       !.direction = d, !.min_frames = m,
                       !.top_points_offset = R(10), !.bottom_points_offset = R(-10),
                       !.top_threshold = R(5), !.bottom_threshold = R(5)] :
        e \in EndFrames, t \in BOOLEAN, k \in 0..MaxSkip, d \in {"x", "y"}, m \in MinFrames }

\* a StaticVideoTracker as tracking() sees it: constructed or not, frames given
\* to update(), results taken with result(), the last box result() returned,
\* and whether it was stopped
NoTracker == [active |-> FALSE, submitted |-> 0, accepted |-> 0, last |-> <<>>,
              stopped |-> FALSE]

\* the two threads outside any queue operation
ListenerIdle == [pc |-> "idle", key |-> "", pressed |-> 0]
ControlIdle == [pc |-> "idle", op |-> "", result |-> "none"]

NoCall == [fn |-> "none"]
NoRet == [err |-> "none", val |-> <<>>]

\* FunscriptGenerator.__init__
\* a projection record as the configuration file gives it
DefaultProjection == [parameter |-> [phi |-> 0, width |-> 4, height |-> -1]]

\* no projection config chosen yet
NoConfig == [ref |-> "none"]

\* the fields and locals of the pipeline before tracking() has started
InitFields(p, frames) ==
    /\ params = p
    /\ bboxes = [Woman |-> <<>>, Men |-> <<>>]
    /\ score = [x |-> <<>>, y |-> <<>>]
    /\ tracking_fps = <<>>
    /\ frame_num = 0
    /\ last_frame = FALSE
    /\ bboxWoman = <<>>
    /\ bboxMen = <<>>
    /\ status = ""
    /\ video = [left |-> frames, open |-> TRUE, stopped |-> FALSE]
    /\ trackers = [Woman |-> NoTracker, Men |-> NoTracker]
    /\ calib = [asked |-> 0, decoded |-> FALSE, desired |-> <<>>]
    /\ idx_dict = [min |-> <<>>, max |-> <<>>]
    /\ output_score = <<>>
    /\ funscript = <<>>
    /\ completed = <<>>

InitPipeline(p, frames) ==
    /\ InitFields(p, frames)
    /\ keypress_queue = <<>>
    /\ listener = ListenerIdle
    /\ control = ControlIdle
    /\ PROJECTION = DefaultProjection
    /\ config = NoConfig

Init ==
    /\ \E p \in PipelineParams, frames \in VideoFrames : InitPipeline(p, frames)
    /\ pc = "seed"
    /\ call = NoCall
    /\ ret = NoRet

----------------------------------------------------------------------------
(* FunscriptGenerator.tracking *)

\* lines 582-599: seed boxes, trackers, loop locals
Seed ==
    /\ pc = "seed"
    /\ \E bw \in WomanSeeds, bm \in MenSeeds :
          /\ bboxWoman' = bw
          /\ bboxMen' = IF params.track_men THEN bm ELSE bboxMen
          /\ bboxes' = [Woman |-> Append(bboxes.Woman, bw),
                        Men   |-> IF params.track_men THEN Append(bboxes.Men, bm)
                                  ELSE bboxes.Men]
    /\ status' = "End of video reached"
    /\ last_frame' = FALSE
    /\ frame_num' = 1
    /\ trackers' = [Woman |-> [NoTracker EXCEPT !.active = TRUE],
                    Men   |-> [NoTracker EXCEPT !.active = params.track_men]]
    /\ pc' = "loop"
    /\ UNCHANGED <<projVars, keyVars, params, score, tracking_fps, video, calib, idx_dict,
                   output_score, funscript, completed, call, ret>>

\* lines 600-607: video.read() returns None: end of stream, or a corrupt frame
ReadNone ==
    /\ pc = "loop"
    /\ video.open
    /\ frame_num' = frame_num + 1
    /\ IF video.left = 0
       THEN /\ video' = [video EXCEPT !.open = FALSE]
            /\ status' = "End of video reached"
       ELSE /\ video' = video
            /\ status' = "Reach a corrupt video frame"
    /\ pc' = "stop"
    /\ UNCHANGED <<projVars, keyVars, params, bboxes, score, tracking_fps, last_frame, bboxWoman, bboxMen,
                   trackers, calib, idx_dict, output_score, funscript, completed,
                   call, ret>>

SkipThis(n) == params.skip_frames > 0 /\ n % (params.skip_frames + 1) # 1
AtEndFrame(n) == params.end_frame > 0 /\ n + params.start_frame >= params.end_frame

\* lines 600-611: a frame is read and skipped (continue)
ReadSkipped ==
    /\ pc = "loop"
    /\ video.open
    /\ video.left > 0
    /\ SkipThis(frame_num + 1)
    /\ frame_num' = frame_num + 1
    /\ video' = [video EXCEPT !.left = @ - 1]
    /\ pc' = "loop"
    /\ UNCHANGED <<projVars, keyVars, params, bboxes, score, tracking_fps, last_frame, bboxWoman, bboxMen,
                   status, trackers, calib, idx_dict, output_score, funscript,
                   completed, call, ret>>

\* lines 600-615: a frame is read at or past end_frame
ReadEndFrame ==
    /\ pc = "loop"
    /\ video.open
    /\ video.left > 0
    /\ ~SkipThis(frame_num + 1)
    /\ AtEndFrame(frame_num + 1)
    /\ frame_num' = frame_num + 1
    /\ video' = [video EXCEPT !.left = @ - 1]
    /\ status' = "Tracking stop at existing action point"
    /\ pc' = "stop"
    /\ UNCHANGED <<projVars, keyVars, params, bboxes, score, tracking_fps, last_frame, bboxWoman, bboxMen,
                   trackers, calib, idx_dict, output_score, funscript, completed,
                   call, ret>>

\* ReadTracked giving the frame to each tracker twice
ReadTracked_update_twice ==
    /\ pc = "loop"
    /\ video.open
    /\ video.left > 0
    /\ ~SkipThis(frame_num + 1)
    /\ ~AtEndFrame(frame_num + 1)
    /\ frame_num' = frame_num + 1
    /\ video' = [video EXCEPT !.left = @ - 1]
    /\ trackers' = [Woman |-> [trackers.Woman EXCEPT !.submitted = @ + 2],
                    Men   |-> IF params.track_men
                              THEN [trackers.Men EXCEPT !.submitted = @ + 2]
                              ELSE trackers.Men]
    /\ pc' = IF last_frame THEN "process" ELSE "result"
    /\ UNCHANGED <<projVars, keyVars, params, bboxes, score, tracking_fps, last_frame, bboxWoman, bboxMen,
                   status, calib, idx_dict, output_score, funscript, completed,
                   call, ret>>

\* lines 600-619: a frame is read and submitted to the trackers
ReadTracked ==
    /\ pc = "loop"
    /\ video.open
    /\ video.left > 0
    /\ ~SkipThis(frame_num + 1)
    /\ ~AtEndFrame(frame_num + 1)
    /\ frame_num' = frame_num + 1
    /\ video' = [video EXCEPT !.left = @ - 1]
    /\ trackers' = [Woman |-> [trackers.Woman EXCEPT !.submitted = @ + 1],
                    Men   |-> IF params.track_men
                              THEN [trackers.Men EXCEPT !.submitted = @ + 1]
                              ELSE trackers.Men]
    /\ pc' = IF last_frame THEN "process" ELSE "result"
    /\ UNCHANGED <<projVars, keyVars, params, bboxes, score, tracking_fps, last_frame, bboxWoman, bboxMen,
                   status, calib, idx_dict, output_score, funscript, completed,
                   call, ret>>

\* self.bboxes after lines 624-629
AppendPair(bbs) ==
    LET w == append_interpolated_bbox(bbs, params.skip_frames, bboxWoman, "Woman")
    IN  IF params.track_men
        THEN append_interpolated_bbox(w, params.skip_frames, bboxMen, "Men")
        ELSE w

\* lines 621-640: the previous iteration is processed; the operator may quit
ProcessLast ==
    /\ pc = "process"
    /\ \E fps \in FpsSamples, quit \in BOOLEAN :
          /\ tracking_fps' = Append(tracking_fps, fps)
          /\ IF quit
             THEN /\ status' = "Tracking stopped by user"
                  /\ bboxes' = delete_last_tracking_predictions(AppendPair(bboxes),
                                   params.track_men,
                                   PyInt(RAdd(get_average_tracking_fps(tracking_fps'), R(1))) * 3)
                  /\ pc' = "stop"
             ELSE /\ status' = status
                  /\ bboxes' = AppendPair(bboxes)
                  /\ pc' = "result"
    /\ UNCHANGED <<projVars, keyVars, params, score, frame_num, last_frame, bboxWoman, bboxMen, video,
                   trackers, calib, idx_dict, output_score, funscript, completed,
                   call, ret>>

\* lines 642-646 (and 655-659 when only one target is tracked)
ResultWoman ==
    /\ pc = "result"
    /\ \/ \E b \in WomanBoxes :
             /\ bboxWoman' = b
             /\ trackers' = [trackers EXCEPT !.Woman.accepted = @ + 1, !.Woman.last = b]
             /\ last_frame' = IF params.track_men THEN last_frame ELSE TRUE
             /\ pc' = IF params.track_men THEN "resultMen" ELSE "loop"
             /\ UNCHANGED <<status, bboxes>>
       \/ /\ status' = "Tracker Woman Lost"
          /\ trackers' = [trackers EXCEPT !.Woman.accepted = @ + 1]
          /\ bboxes' = delete_last_tracking_predictions(bboxes, params.track_men,
                                                        (params.skip_frames + 1) * 3)
          /\ pc' = "stop"
          /\ UNCHANGED <<bboxWoman, last_frame>>
    /\ UNCHANGED <<projVars, keyVars, params, score, tracking_fps, frame_num, bboxMen, video, calib,
                   idx_dict, output_score, funscript, completed, call, ret>>

\* lines 648-659
ResultMen ==
    /\ pc = "resultMen"
    /\ \/ \E b \in MenBoxes :
             /\ bboxMen' = b
             /\ trackers' = [trackers EXCEPT !.Men.accepted = @ + 1, !.Men.last = b]
             /\ last_frame' = TRUE
             /\ pc' = "loop"
             /\ UNCHANGED <<status, bboxes>>
       \/ /\ status' = "Tracking Men Lost"
          /\ trackers' = [trackers EXCEPT !.Men.accepted = @ + 1]
          /\ bboxes' = delete_last_tracking_predictions(bboxes, params.track_men,
                                                        (params.skip_frames + 1) * 3)
          /\ pc' = "stop"
          /\ UNCHANGED <<bboxMen, last_frame>>
    /\ UNCHANGED <<projVars, keyVars, params, score, tracking_fps, frame_num, bboxWoman, video, calib,
                   idx_dict, output_score, funscript, completed, call, ret>>

\* lines 661-664: video.stop() and calculate_score(); an exception of
\* calculate_score leaves tracking() and run()
StopTracking ==
    /\ pc = "stop"
    /\ video' = [video EXCEPT !.stopped = TRUE]
    /\ LET r == calculate_score(bboxes, params.track_men)
       IN  /\ score' = r.val
           /\ pc' = IF r.err = "none" THEN "tracked" ELSE "raised"
    /\ UNCHANGED <<projVars, keyVars, params, bboxes, tracking_fps, frame_num, last_frame, bboxWoman,
                   bboxMen, status, trackers, calib, idx_dict, output_score, funscript,
                   completed, call, ret>>

----------------------------------------------------------------------------
(* FunscriptGenerator.run, after tracking() has returned *)

\* the (desired_min, desired_max) min_max_selector returns for trackbar values a, b
Selected(a, b) == IF a < b THEN <<a, b>> ELSE <<b, a>>

\* RunCalibrate without the min_frames test of line 767
RunCalibrate_unconditional ==
    /\ pc = "tracked"
    /\ IF ~(Len(score.y) < 2)
       THEN \E decoded \in BOOLEAN, t \in TrackbarPairs :
              LET desired == IF decoded THEN Selected(t[1], t[2]) ELSE <<0, 99>>
                  d == IF params.direction = "x" THEN "x" ELSE "y"
                  r == scale(score[d], R(desired[1]), R(desired[2]))
              IN  /\ calib' = [asked |-> IF decoded THEN calib.asked + 1 ELSE calib.asked,
                               decoded |-> decoded, desired |-> desired]
                  /\ score' = IF r.err = "none" THEN [score EXCEPT ![d] = r.val] ELSE score
                  /\ pc' = IF r.err = "none" THEN "check" ELSE "raised"
       ELSE /\ pc' = "check"
            /\ UNCHANGED <<calib, score>>
    /\ UNCHANGED <<projVars, keyVars, params, bboxes, tracking_fps, frame_num, last_frame, bboxWoman, bboxMen,
                   status, video, trackers, idx_dict, output_score, funscript, completed,
                   call, ret>>

\* lines 767-771: scale_score for the configured direction when the score is
\* long enough; the two frames may fail to decode (lines 345-348)
RunCalibrate ==
    /\ pc = "tracked"
    /\ IF Len(score.y) >= params.min_frames /\ ~(Len(score.y) < 2)
       THEN \E decoded \in BOOLEAN, t \in TrackbarPairs :
              LET desired == IF decoded THEN Selected(t[1], t[2]) ELSE <<0, 99>>
                  d == IF params.direction = "x" THEN "x" ELSE "y"
                  r == scale(score[d], R(desired[1]), R(desired[2]))
              IN  /\ calib' = [asked |-> IF decoded THEN calib.asked + 1 ELSE calib.asked,
                               decoded |-> decoded, desired |-> desired]
                  /\ score' = IF r.err = "none" THEN [score EXCEPT ![d] = r.val] ELSE score
                  /\ pc' = IF r.err = "none" THEN "check" ELSE "raised"
       ELSE /\ pc' = "check"
            /\ UNCHANGED <<calib, score>>
    /\ UNCHANGED <<projVars, keyVars, params, bboxes, tracking_fps, frame_num, last_frame, bboxWoman, bboxMen,
                   status, video, trackers, idx_dict, output_score, funscript, completed,
                   call, ret>>

\* lines 773-775: finished(status + ' -> Tracking time insufficient', False)
RunInsufficient ==
    /\ pc = "check"
    /\ Len(score.y) < params.min_frames
    /\ completed' = Append(completed, [status |-> status,
                                       suffix |-> " -> Tracking time insufficient",
                                       success |-> FALSE])
    /\ pc' = "done"
    /\ UNCHANGED <<projVars, keyVars, params, bboxes, score, tracking_fps, frame_num, last_frame, bboxWoman,
                   bboxMen, status, video, trackers, calib, idx_dict, output_score,
                   funscript, call, ret>>

\* lines 777-783: the extrema of the score of the configured direction
RunExtrema ==
    /\ pc = "check"
    /\ ~(Len(score.y) < params.min_frames)
    /\ idx_dict' = get_local_max_and_min_idx(
                       IF params.direction # "x" THEN score.y ELSE score.x, params.fps)
    /\ pc' = "offsets"
    /\ UNCHANGED <<projVars, keyVars, params, bboxes, score, tracking_fps, frame_num, last_frame, bboxWoman,
                   bboxMen, status, video, trackers, calib, output_score, funscript,
                   completed, call, ret>>

\* line 790: output_score = self.get_score_with_offset(idx_dict)
RunOffsets ==
    /\ pc = "offsets"
    /\ output_score' = get_score_with_offset(params, score, idx_dict)
    /\ pc' = "actions"
    /\ UNCHANGED <<projVars, keyVars, params, bboxes, score, tracking_fps, frame_num, last_frame, bboxWoman,
                   bboxMen, status, video, trackers, calib, idx_dict, funscript,
                   completed, call, ret>>

\* the add_action calls of one group; an action is recorded with its position,
\* the frame number handed to FFmpegStream.frame_to_millisec and its group
MinActions ==
    [i \in 1..Len(idx_dict.min) |->
        [pos |-> MinPosition(params, output_score, idx_dict.min[i]),
         frame |-> apply_shift(params, Len(score.y), idx_dict.min[i], "min"),
         idx |-> idx_dict.min[i], group |-> "min"]]

MaxActions ==
    [i \in 1..Len(idx_dict.max) |->
        [pos |-> MaxPosition(params, output_score, idx_dict.max[i]),
         frame |-> apply_shift(params, Len(score.y), idx_dict.max[i], "max"),
         idx |-> idx_dict.max[i], group |-> "max"]]

\* lines 791-807: the actions of both groups, then finished(status, True)
RunAddActions ==
    /\ pc = "actions"
    /\ funscript' = funscript \o MinActions \o MaxActions
    /\ completed' = Append(completed, [status |-> status, suffix |-> "", success |-> TRUE])
    /\ pc' = "done"
    /\ UNCHANGED <<projVars, keyVars, params, bboxes, score, tracking_fps, frame_num, last_frame, bboxWoman,
                   bboxMen, status, video, trackers, calib, idx_dict, output_score,
                   call, ret>>

Next ==
    \/ Seed
    \/ ReadNone
    \/ ReadSkipped
    \/ ReadEndFrame
    \/ ReadTracked
    \/ ProcessLast
    \/ ResultWoman
    \/ ResultMen
    \/ StopTracking
    \/ RunCalibrate
    \/ RunInsufficient
    \/ RunExtrema
    \/ RunOffsets
    \/ RunAddActions

Spec == Init /\ [][Next]_vars

----------------------------------------------------------------------------
(* Specifications that call one function of the code on bounded inputs.     *)
(* The pipeline variables stay at their constructed values.                 *)

MaxLenMA == 6        \* longest signal given to moving_average
MaxWindow == 4       \* largest window given to moving_average
MaxScoreLen == 6     \* longest score apply_shift is called with
MaxShift == 2        \* largest |shift_top_points|, |shift_bottom_points|
MaxSignalLen == 5    \* length of the signals given to merge_points
MaxBase == 2         \* most base points given to merge_points
MaxExtra == 1        \* most additional points given to merge_points
MaxEmitLen == 3      \* length of the scores the emission of run() starts from
MaxGroup == 2        \* most indices in one group of the extrema dictionary
MaxCatLen == 5       \* longest signal given to categorize_points
MaxCatPoints == 2    \* most points given to categorize_points
MaxSpaceKeys == 1    \* most space keys the listener delivers (q keys are unlimited)
MaxTrajLen == 3      \* longest trajectory given to calculate_score
MaxDCLen == 7        \* longest enumerated signal given to get_direction_changes
MaxFilterLen == 2    \* largest filter_len given to get_direction_changes
MaxArrayLen == 3     \* longest list given to find_nearest
MaxValue == 4        \* largest list element and search value given to find_nearest
MaxOrderLen == 7     \* length of the signals merge_points gets with several candidates
MaxOrderExtra == 2   \* most candidates in such a call
MaxProjKeys == 3     \* most keys pressed while a projection config is chosen
MaxDecLen == 6       \* longest signal given to decimate

\* all sequences over S of length 0..n
SeqsUpTo(S, n) == UNION { [1..m -> S] : m \in 0..n }

\* strictly ascending or strictly descending sequences of integers
IsMonotone(f) == \/ \A i \in 1..(Len(f) - 1) : f[i] < f[i + 1]
                 \/ \A i \in 1..(Len(f) - 1) : f[i] > f[i + 1]

InitCall(p, c) ==
    /\ InitPipeline(p, MaxFrames)
    /\ pc = "call"
    /\ call = c
    /\ ret = NoRet

\* ---- Signal.moving_average ----
InitMA ==
    \E x \in SeqsUpTo({R(0), R(1), R(3)}, MaxLenMA), w \in 1..MaxWindow :
        InitCall(NoParams, [fn |-> "moving_average", x |-> x, w |-> w])

CallMovingAverage ==
    /\ pc = "call"
    /\ call.fn = "moving_average"
    /\ ret' = Return(moving_average(call.x, call.w))
    /\ pc' = "returned"
    /\ UNCHANGED <<projVars, keyVars, params, bboxes, score, tracking_fps, frame_num, last_frame, bboxWoman,
                   bboxMen, status, video, trackers, calib, idx_dict, output_score,
                   funscript, completed, call>>

NextMA == CallMovingAverage

SpecMA == InitMA /\ [][NextMA]_vars

\* ---- FunscriptGenerator.apply_shift ----
InitShift ==
    \E n \in 1..MaxScoreLen, st \in -MaxShift..MaxShift, sb \in -MaxShift..MaxShift,
       sf \in {0, 100}, d \in {"x", "y"}, pos \in {"min", "max"} :
      \E i \in 0..(n - 1) :
        /\ InitPipeline([NoParams EXCEPT !.shift_top_points = st, !.shift_bottom_points = sb,
                                         !.start_frame = sf, !.direction = d],
                        MaxFrames)
        /\ pc = "init"
        /\ call = [fn |-> "apply_shift", frame_number |-> i, position |-> pos, len |-> n]
        /\ ret = NoRet

\* the score apply_shift finds in self.score: only its length is read
LoadScore ==
    /\ pc = "init"
    /\ call.fn = "apply_shift"
    /\ score' = [x |-> [i \in 1..call.len |-> R(0)], y |-> [i \in 1..call.len |-> R(0)]]
    /\ pc' = "call"
    /\ UNCHANGED <<projVars, keyVars, params, bboxes, tracking_fps, frame_num, last_frame, bboxWoman,
                   bboxMen, status, video, trackers, calib, idx_dict, output_score,
                   funscript, completed, call, ret>>

CallApplyShift ==
    /\ pc = "call"
    /\ call.fn = "apply_shift"
    /\ ret' = Return(apply_shift(params, Len(score.y), call.frame_number, call.position))
    /\ pc' = "returned"
    /\ UNCHANGED <<projVars, keyVars, params, bboxes, score, tracking_fps, frame_num, last_frame, bboxWoman,
                   bboxMen, status, video, trackers, calib, idx_dict, output_score,
                   funscript, completed, call>>

NextShift == LoadScore \/ CallApplyShift

SpecShift == InitShift /\ [][NextShift]_vars

\* ---- Signal.merge_points ----
MergeSignals == [1..MaxSignalLen -> {R(0), R(50), R(99)}]
MergeIndices == 0..(MaxSignalLen - 1)

InitMerge ==
    \E s \in MergeSignals,
       B \in { b \in SeqsUpTo(MergeIndices, MaxBase) : IsMonotone(b) },
       E \in SeqsUpTo(MergeIndices, MaxExtra) :
        InitCall([NoParams EXCEPT !.fps = R(10)],
                 [fn |-> "merge_points", signal |-> s, base_points |-> B,
                  additional_points |-> E])

CallMergePoints ==
    /\ pc = "call"
    /\ call.fn = "merge_points"
    /\ ret' = merge_points(call.signal, params.fps, call.base_points, call.additional_points)
    /\ pc' = "returned"
    /\ UNCHANGED <<projVars, keyVars, params, bboxes, score, tracking_fps, frame_num, last_frame, bboxWoman,
                   bboxMen, status, video, trackers, calib, idx_dict, output_score,
                   funscript, completed, call>>

NextMerge == CallMergePoints

SpecMerge == InitMerge /\ [][NextMerge]_vars

\* ---- Signal.categorize_points ----
CatFps == {<<1, 2>>, R(1)}

InitCat ==
    \E n \in 1..MaxCatLen, fps \in CatFps :
      \E sig \in [1..n -> {R(0), R(1), R(3)}], pts \in SeqsUpTo(0..(n - 1), MaxCatPoints) :
        InitCall([NoParams EXCEPT !.fps = fps],
                 [fn |-> "categorize_points", signal |-> sig, points |-> pts])

CallCategorizePoints ==
    /\ pc = "call"
    /\ call.fn = "categorize_points"
    /\ ret' = Return(categorize_points(call.signal, params.fps, call.points))
    /\ pc' = "returned"
    /\ UNCHANGED <<projVars, keyVars, params, bboxes, score, tracking_fps, frame_num, last_frame, bboxWoman,
                   bboxMen, status, video, trackers, calib, idx_dict, output_score,
                   funscript, completed, call>>

NextCat == CallCategorizePoints

SpecCat == InitCat /\ [][NextCat]_vars

\* ---- Signal.merge_points with several candidates in any order ----
\* a flat signal, a zigzag and a ramp from 0 to 99
OrderSignals ==
    { [i \in 1..MaxOrderLen |-> R(0)],
      [i \in 1..MaxOrderLen |-> R(IF i % 2 = 1 THEN 0 ELSE 99)],
      [i \in 1..MaxOrderLen |-> Rat(99 * (i - 1), MaxOrderLen - 1)] }
OrderIndices == 0..(MaxOrderLen - 1)

InitMergeOrder ==
    \E s \in OrderSignals, fps \in {R(10), R(20)},
       B \in { b \in SeqsUpTo(OrderIndices, MaxBase) :
                  \A i \in 1..(Len(b) - 1) : b[i] < b[i + 1] },
       E \in SeqsUpTo(OrderIndices, MaxOrderExtra) :
        InitCall([NoParams EXCEPT !.fps = fps],
                 [fn |-> "merge_points", signal |-> s, base_points |-> B,
                  additional_points |-> E])

NextMergeOrder == CallMergePoints

SpecMergeOrder == InitMergeOrder /\ [][NextMergeOrder]_vars

\* ---- Signal.decimate ----
BasePointAlgorithm == {"direction_changes", "local_min_max"}
AdditionalPointAlgorithm == {"high_second_derivative", "distance_minimization"}

\* lists of additional point algorithms, each used at most once
AlgorithmLists ==
    { a \in SeqsUpTo(AdditionalPointAlgorithm, 2) :
        \A i, j \in 1..Len(a) : i # j => a[i] # a[j] }

InitDecimate ==
    \E s \in SeqsUpTo({R(0), R(50), R(99)}, MaxDecLen),
       b \in BasePointAlgorithm, a \in AlgorithmLists :
        InitCall(NoParams,
                 [fn |-> "decimate", signal |-> s, base_point_algorithm |-> b,
                  additional_points_algorithms |-> a])

CallDecimate ==
    /\ pc = "call"
    /\ call.fn = "decimate"
    /\ ret' = decimate(call.signal, params.fps, call.base_point_algorithm,
                       call.additional_points_algorithms)
    /\ pc' = "returned"
    /\ UNCHANGED <<projVars, keyVars, params, bboxes, score, tracking_fps, frame_num,
                   last_frame, bboxWoman, bboxMen, status, video, trackers, calib,
                   idx_dict, output_score, funscript, completed, call>>

NextDecimate == CallDecimate

SpecDecimate == InitDecimate /\ [][NextDecimate]_vars

\* ---- Signal.find_nearest ----
IsSortedAscending(f) == \A i \in 1..(Len(f) - 1) : f[i] <= f[i + 1]

\* side as find_nearest sees it after side.lower()
Sides == {"left", "right", "nearest"}

InitFN ==
    \E xs \in SeqsUpTo(0..MaxValue, MaxArrayLen), v \in 0..MaxValue, side \in Sides :
        /\ Len(xs) > 0 /\ IsSortedAscending(xs)
        /\ InitCall(NoParams, [fn |-> "find_nearest", array |-> xs, value |-> v,
                               side |-> side])

CallFindNearest ==
    /\ pc = "call"
    /\ call.fn = "find_nearest"
    /\ ret' = find_nearest(call.array, call.value, call.side)
    /\ pc' = "returned"
    /\ UNCHANGED <<projVars, keyVars, params, bboxes, score, tracking_fps, frame_num, last_frame,
                   bboxWoman, bboxMen, status, video, trackers, calib, idx_dict,
                   output_score, funscript, completed, call>>

NextFN == CallFindNearest

SpecFN == InitFN /\ [][NextFN]_vars

\* ---- Signal.get_direction_changes ----
\* the triangle wave 0,1,2,3,2,1,0,1,2,3,2,1,0
TriangleWave == [i \in 1..13 |-> R(IF i <= 4 THEN i - 1 ELSE IF i <= 7 THEN 7 - i
                                   ELSE IF i <= 10 THEN i - 7 ELSE 13 - i)]

InitDC ==
    \E sig \in SeqsUpTo({R(0), R(1), R(2)}, MaxDCLen) \cup {TriangleWave},
       fl \in 1..MaxFilterLen :
        InitCall(NoParams, [fn |-> "get_direction_changes", signal |-> sig,
                            filter_len |-> fl])

CallGetDirectionChanges ==
    /\ pc = "call"
    /\ call.fn = "get_direction_changes"
    /\ ret' = Return(get_direction_changes(call.signal, call.filter_len))
    /\ pc' = "returned"
    /\ UNCHANGED <<projVars, keyVars, params, bboxes, score, tracking_fps, frame_num, last_frame,
                   bboxWoman, bboxMen, status, video, trackers, calib, idx_dict,
                   output_score, funscript, completed, call>>

NextDC == CallGetDirectionChanges

SpecDC == InitDC /\ [][NextDC]_vars

\* ---- FunscriptGenerator.calculate_score ----
ScoreWomanBoxes == {Box(4, 7, 9, 12), Box(1, 7, 9, 12), Box(4, 1, 9, 12)}
ScoreMenBoxes == {Box(2, 3, 9, 9), Box(5, 3, 9, 9), Box(2, 6, 9, 9)}

\* trajectories as tracking() leaves them: equally long when both targets are
\* tracked, no second trajectory otherwise
InitScore ==
    \E n \in 1..MaxTrajLen, t \in BOOLEAN :
      \E w \in [1..n -> ScoreWomanBoxes], m \in [1..n -> ScoreMenBoxes] :
        /\ t => w \in [1..n -> {Box(4, 7, 9, 12)}]
        /\ ~t => m \in [1..n -> {Box(2, 3, 9, 9)}]
        /\ params = [NoParams EXCEPT !.track_men = t]
        /\ bboxes = [Woman |-> w, Men |-> IF t THEN m ELSE <<>>]
        /\ score = [x |-> <<>>, y |-> <<>>]
        /\ tracking_fps = <<>>
        /\ frame_num = n
        /\ last_frame = TRUE
        /\ bboxWoman = w[n]
        /\ bboxMen = IF t THEN m[n] ELSE <<>>
        /\ status = "End of video reached"
        /\ video = [left |-> 0, open |-> FALSE, stopped |-> TRUE]
        /\ trackers = [Woman |-> NoTracker, Men |-> NoTracker]
        /\ calib = [asked |-> 0, decoded |-> FALSE, desired |-> <<>>]
        /\ idx_dict = [min |-> <<>>, max |-> <<>>]
        /\ output_score = <<>>
        /\ funscript = <<>>
        /\ completed = <<>>
        /\ keypress_queue = <<>>
        /\ listener = ListenerIdle
        /\ control = ControlIdle
        /\ PROJECTION = DefaultProjection
        /\ config = NoConfig
        /\ pc = "call"
        /\ call = [fn |-> "calculate_score"]
        /\ ret = NoRet

\* self.calculate_score(); the coordinates are Python numbers or numpy floats
CallCalculateScore ==
    /\ pc = "call"
    /\ call.fn = "calculate_score"
    /\ \E numpy \in BOOLEAN :
          LET r == IF numpy THEN calculate_score_numpy(bboxes, params.track_men)
                   ELSE calculate_score(bboxes, params.track_men)
          IN  /\ score' = r.val
              /\ ret' = [err |-> r.err, val |-> <<>>]
    /\ pc' = "returned"
    /\ UNCHANGED <<projVars, keyVars, params, bboxes, tracking_fps, frame_num, last_frame, bboxWoman,
                   bboxMen, status, video, trackers, calib, idx_dict, output_score,
                   funscript, completed, call>>

NextScore == CallCalculateScore

SpecScore == InitScore /\ [][NextScore]_vars

\* ---- the keypress queue: on_key_press against the polls of the control thread ----
\* Queue.full(), Queue.qsize(), Queue.put() and Queue.get() are atomic; put()
\* waits while the queue is full and get() waits while it is empty.
keypress_queue_maxsize == 32
Keys == {"q", "space"}
Polls == {"clear_keypress_queue", "was_key_pressed", "was_space_pressed"}

InitKeys ==
    /\ InitPipeline(NoParams, MaxFrames)
    /\ pc = "keys"
    /\ call = NoCall
    /\ ret = NoRet

\* on_key_press without the full() test of line 705
KeyPressTest_always_put ==
    /\ listener.pc = "idle"
    /\ \E k \in Keys :
          /\ k = "space" => listener.pressed < MaxSpaceKeys
          /\ listener' = [pc |-> "put", key |-> k,
                          pressed |-> IF k = "space" THEN listener.pressed + 1
                                      ELSE listener.pressed]
    /\ UNCHANGED <<keypress_queue, control, pipeVars, projVars, call, ret>>

\* line 705: the listener thread enters on_key_press(key) and tests full();
\* on a full queue the handler returns
KeyPressTest ==
    /\ listener.pc = "idle"
    /\ \E k \in Keys :
          /\ k = "space" => listener.pressed < MaxSpaceKeys
          /\ listener' = [pc |-> IF Len(keypress_queue) >= keypress_queue_maxsize
                                 THEN "idle" ELSE "put",
                          key |-> IF Len(keypress_queue) >= keypress_queue_maxsize
                                  THEN "" ELSE k,
                          pressed |-> IF k = "space" THEN listener.pressed + 1
                                      ELSE listener.pressed]
    /\ UNCHANGED <<keypress_queue, control, pipeVars, projVars, call, ret>>

\* line 706: self.keypress_queue.put(key); enabled only while there is room
KeyPressPut ==
    /\ listener.pc = "put"
    /\ Len(keypress_queue) < keypress_queue_maxsize
    /\ keypress_queue' = Append(keypress_queue, listener.key)
    /\ listener' = [listener EXCEPT !.pc = "idle", !.key = ""]
    /\ UNCHANGED <<control, pipeVars, projVars, call, ret>>

\* the control thread calls clear_keypress_queue(), was_key_pressed('q') or
\* was_space_pressed()
PollStart ==
    /\ control.pc = "idle"
    /\ \E op \in Polls : control' = [pc |-> "test", op |-> op, result |-> "none"]
    /\ UNCHANGED <<keypress_queue, listener, pipeVars, projVars, call, ret>>

\* lines 669, 683, 694: while self.keypress_queue.qsize() > 0
PollTest ==
    /\ control.pc = "test"
    /\ control' = IF Len(keypress_queue) > 0
                  THEN [control EXCEPT !.pc = "get"]
                  ELSE [control EXCEPT !.pc = "idle",
                                       !.result = IF control.op = "clear_keypress_queue"
                                                  THEN "None" ELSE "False"]
    /\ UNCHANGED <<keypress_queue, listener, pipeVars, projVars, call, ret>>

\* the key a poll returns True for
Wanted(op) == IF op = "was_key_pressed" THEN "q"
              ELSE IF op = "was_space_pressed" THEN "space" ELSE "none"

\* lines 670, 684, 695: self.keypress_queue.get(); enabled only on a non-empty queue
PollGet ==
    /\ control.pc = "get"
    /\ Len(keypress_queue) > 0
    /\ keypress_queue' = Tail(keypress_queue)
    /\ control' = IF Head(keypress_queue) = Wanted(control.op)
                  THEN [control EXCEPT !.pc = "idle", !.result = "True"]
                  ELSE [control EXCEPT !.pc = "test"]
    /\ UNCHANGED <<listener, pipeVars, projVars, call, ret>>

NextKeys == KeyPressTest \/ KeyPressPut \/ PollStart \/ PollTest \/ PollGet

SpecKeys == InitKeys /\ [][NextKeys]_vars

\* ---- get_vr_projection_config / get_flat_projection_config ----
\* projection records of the table: a tilt phi and a size with one side open (-1)
Projections ==
    { [parameter |-> [phi |-> phi, width |-> d[1], height |-> d[2]]] :
        phi \in {-80, 0, 80}, d \in {<<4, -1>>, <<-1, 4>>, <<4, 4>>} }
ProjKeys == {"q", "w", "s"}
FrameShapes == {<<2, 4>>, <<3, 2>>}      \* first_frame.shape[:2] = (h, w)

\* config['parameter']: config is a reference, to the shared record or to a copy
ConfigParameter ==
    IF config.ref = "PROJECTION" THEN PROJECTION.parameter ELSE config.parameter

InitProj ==
    \E P \in Projections, shape \in FrameShapes,
       fn \in {"get_vr_projection_config", "get_flat_projection_config"} :
        /\ InitFields(NoParams, MaxFrames)
        /\ keypress_queue = <<>>
        /\ listener = ListenerIdle
        /\ control = ControlIdle
        /\ PROJECTION = P
        /\ config = NoConfig
        /\ pc = fn
        /\ call = [fn |-> fn, loaded |-> P, shape |-> shape]
        /\ ret = NoRet

\* on_key_press(key), lines 699-706, while a projection config is chosen
ProjKeyPress ==
    /\ listener.pressed < MaxProjKeys
    /\ \E k \in ProjKeys :
          keypress_queue' = IF Len(keypress_queue) >= keypress_queue_maxsize
                            THEN keypress_queue ELSE Append(keypress_queue, k)
    /\ listener' = [listener EXCEPT !.pressed = listener.pressed + 1]
    /\ UNCHANGED <<pipeVars, projVars, control, call, ret>>

\* line 438: config = PROJECTION[self.params.projection]
VRConfig ==
    /\ pc = "get_vr_projection_config"
    /\ config' = [ref |-> "PROJECTION"]
    /\ pc' = "select"
    /\ UNCHANGED <<PROJECTION, keyVars, params, bboxes, score, tracking_fps, frame_num,
                   last_frame, bboxWoman, bboxMen, status, video, trackers, calib,
                   idx_dict, output_score, funscript, completed, call, ret>>

\* the phi a key leaves in config['parameter'], lines 467-472
TunedPhi(key, phi) ==
    IF key = "w" THEN (IF phi + 5 < 80 THEN phi + 5 ELSE 80)
    ELSE IF key = "s" THEN (IF phi - 5 > -80 THEN phi - 5 ELSE -80)
    ELSE phi

\* lines 462-472: one pass of the inner loop takes a key from the queue
VRKey ==
    /\ pc = "select"
    /\ Len(keypress_queue) > 0
    /\ keypress_queue' = Tail(keypress_queue)
    /\ LET key == Head(keypress_queue)
           phi == TunedPhi(key, ConfigParameter.phi)
       IN  /\ pc' = IF key = "q" THEN "selected" ELSE "select"
           /\ IF config.ref = "PROJECTION"
              THEN /\ PROJECTION' = [PROJECTION EXCEPT !.parameter.phi = phi]
                   /\ UNCHANGED config
              ELSE /\ config' = [config EXCEPT !.parameter.phi = phi]
                   /\ UNCHANGED PROJECTION
           /\ ret' = IF key = "q" THEN Return(ConfigParameter) ELSE ret
    /\ UNCHANGED <<listener, control, params, bboxes, score, tracking_fps, frame_num,
                   last_frame, bboxWoman, bboxMen, status, video, trackers, calib,
                   idx_dict, output_score, funscript, completed, call>>

\* line 474: cv2.waitKey(1) reports a 'q' typed into the window: break
VRWaitKey ==
    /\ pc = "select"
    /\ Len(keypress_queue) = 0
    /\ pc' = "selected"
    /\ ret' = Return(ConfigParameter)
    /\ UNCHANGED <<projVars, keyVars, params, bboxes, score, tracking_fps, frame_num,
                   last_frame, bboxWoman, bboxMen, status, video, trackers, calib,
                   idx_dict, output_score, funscript, completed, call>>

\* get_flat_projection_config(first_frame), lines 548-560
FlatParameter(P, shape) ==
    LET h == shape[1]
        w == shape[2]
        c == P.parameter
    IN  IF c.height = -1
        THEN [c EXCEPT !.height = PyRound(RMul(R(h), Rat(c.width, w)))]
        ELSE IF c.width = -1
        THEN [c EXCEPT !.width = PyRound(RMul(R(w), Rat(c.height, h)))]
        ELSE c

FlatConfig ==
    /\ pc = "get_flat_projection_config"
    /\ config' = [ref |-> "copy", parameter |-> FlatParameter(PROJECTION, call.shape)]
    /\ ret' = Return(FlatParameter(PROJECTION, call.shape))
    /\ pc' = "selected"
    /\ UNCHANGED <<PROJECTION, keyVars, params, bboxes, score, tracking_fps, frame_num,
                   last_frame, bboxWoman, bboxMen, status, video, trackers, calib,
                   idx_dict, output_score, funscript, completed, call>>

NextProj == ProjKeyPress \/ VRConfig \/ VRKey \/ VRWaitKey \/ FlatConfig

SpecProj == InitProj /\ [][NextProj]_vars

\* ---- run() from line 790 on: get_score_with_offset and the add_action loops ----
\* raw coordinate differences, the operator's calibration values, point offsets
EmitRaw == { r \in [1..MaxEmitLen -> {R(0), R(29), R(30)}] : RMin(r) # RMax(r) }
EmitDesired == {<<20, 80>>, <<0, 99>>}
EmitOffsets == {R(-10), R(0), R(10)}
EmitGroups == { g \in SeqsUpTo(0..(MaxEmitLen - 1), MaxGroup) :
                  \A i \in 1..(Len(g) - 1) : g[i] < g[i + 1] }

\* the state of run() at line 790 after tracking, calculate_score and a
\* calibration of the y score with the values desired, for an extrema dictionary
InitEmit ==
    \E raw \in EmitRaw, desired \in EmitDesired, bo \in EmitOffsets, to \in EmitOffsets,
       gmin \in EmitGroups, gmax \in EmitGroups :
      LET sc == scale(raw, R(0), R(100)).val IN
        /\ params = [NoParams EXCEPT !.bottom_points_offset = bo, !.top_points_offset = to,
                                     !.bottom_threshold = R(5), !.top_threshold = R(5)]
        /\ bboxes = [Woman |-> <<>>, Men |-> <<>>]
        /\ score = [x |-> sc, y |-> scale(sc, R(desired[1]), R(desired[2])).val]
        /\ tracking_fps = <<>>
        /\ frame_num = 0
        /\ last_frame = FALSE
        /\ bboxWoman = <<>>
        /\ bboxMen = <<>>
        /\ status = "End of video reached"
        /\ video = [left |-> 0, open |-> TRUE, stopped |-> TRUE]
        /\ trackers = [Woman |-> NoTracker, Men |-> NoTracker]
        /\ calib = [asked |-> 1, decoded |-> TRUE, desired |-> desired]
        /\ idx_dict = [min |-> gmin, max |-> gmax]
        /\ output_score = <<>>
        /\ funscript = <<>>
        /\ completed = <<>>
        /\ keypress_queue = <<>>
        /\ listener = ListenerIdle
        /\ control = ControlIdle
        /\ PROJECTION = DefaultProjection
        /\ config = NoConfig
        /\ pc = "offsets"
        /\ call = NoCall
        /\ ret = NoRet

NextEmit == RunOffsets \/ RunAddActions

SpecEmit == InitEmit /\ [][NextEmit]_vars

\* ---- FunscriptGenerator.get_score_with_offset for both directions ----
OffsetScores == [1..MaxEmitLen -> {R(0), R(50), R(100)}]

\* the state of run() at line 790 for a stored score and an extrema dictionary
InitOffset ==
    \E d \in {"x", "y"}, y \in OffsetScores, flat \in BOOLEAN,
       bo \in EmitOffsets, to \in EmitOffsets, gmin \in EmitGroups, gmax \in EmitGroups :
        /\ params = [NoParams EXCEPT !.direction = d, !.bottom_points_offset = bo,
                                     !.top_points_offset = to]
        /\ bboxes = [Woman |-> <<>>, Men |-> <<>>]
        /\ score = [x |-> IF flat THEN [i \in 1..MaxEmitLen |-> R(50)]
                          ELSE [i \in 1..MaxEmitLen |-> y[MaxEmitLen + 1 - i]],
                    y |-> y]
        /\ tracking_fps = <<>>
        /\ frame_num = 0
        /\ last_frame = FALSE
        /\ bboxWoman = <<>>
        /\ bboxMen = <<>>
        /\ status = "End of video reached"
        /\ video = [left |-> 0, open |-> TRUE, stopped |-> TRUE]
        /\ trackers = [Woman |-> NoTracker, Men |-> NoTracker]
        /\ calib = [asked |-> 1, decoded |-> TRUE, desired |-> <<0, 100>>]
        /\ idx_dict = [min |-> gmin, max |-> gmax]
        /\ output_score = <<>>
        /\ funscript = <<>>
        /\ completed = <<>>
        /\ keypress_queue = <<>>
        /\ listener = ListenerIdle
        /\ control = ControlIdle
        /\ PROJECTION = DefaultProjection
        /\ config = NoConfig
        /\ pc = "offsets"
        /\ call = [fn |-> "get_score_with_offset", score |-> score]
        /\ ret = NoRet

NextOffset == RunOffsets

SpecOffset == InitOffset /\ [][NextOffset]_vars

----------------------------------------------------------------------------
(* Properties *)

Range(f) == { f[i] : i \in DOMAIN f }
Count(f, v) == Cardinality({ i \in DOMAIN f : f[i] = v })
IsSortedInts(f) == \A i \in 1..(Len(f) - 1) : f[i] <= f[i + 1]

\* C4 (as stated): for every signal, base list B and candidate list E,
\* merge_points returns a list that is sorted ascending, contains every element
\* of B and holds at most one added element for each e in E.
C4_MergeSortedSuperset ==
    (pc = "returned" /\ call.fn = "merge_points") =>
        /\ ret.err = "none"
        /\ IsSortedInts(ret.val)
        /\ \A v \in MergeIndices :
              /\ Count(ret.val, v) >= Count(call.base_points, v)
              /\ Count(ret.val, v) <= Count(call.base_points, v)
                                      + (IF v \in Range(call.additional_points) THEN 1 ELSE 0)

\* the shift apply_shift is asked to apply for the position of the call
RequestedShift ==
    IF call.position = "max" THEN params.shift_top_points ELSE params.shift_bottom_points

\* C5: apply_shift(i, 'min'|'max') for an index i of the score returns a frame in
\* [start_frame, start_frame + len(score) - 1]: start_frame + i + shift when the
\* direction is y and i + shift is an index of the score, start_frame + i otherwise.
C5_ApplyShiftClamped ==
    (pc = "returned" /\ call.fn = "apply_shift") =>
        LET i == call.frame_number
            n == Len(score.y)
        IN  /\ ret.val \in params.start_frame..(params.start_frame + n - 1)
            /\ ret.val = IF params.direction = "y" /\ i + RequestedShift \in 0..(n - 1)
                         THEN params.start_frame + i + RequestedShift
                         ELSE params.start_frame + i

\* C5 witness: shift_top_points = +2, start_frame = 100, index 3 gives 105
C5_Witness ==
    /\ pc = "returned" /\ call.fn = "apply_shift"
    /\ params.direction = "y" /\ params.shift_top_points = 2 /\ params.start_frame = 100
    /\ call.position = "max" /\ call.frame_number = 3
    /\ ret.val = 105

\* C10 (as stated): moving_average(x, 1) returns x unchanged for every non-empty
\* x, and for len(x) <= w+1 every output element equals mean(x).
C10_MovingAverageEdges ==
    (pc = "returned" /\ call.fn = "moving_average") =>
        /\ (call.w = 1 /\ call.x # <<>> => ret.val = call.x)
        /\ (Len(call.x) <= call.w + 1 =>
                \A i \in 1..Len(ret.val) : ret.val[i] = Mean(call.x))

\* C10 (amended): moving_average(x, 1) returns x unchanged for every x of more
\* than two elements; for len(x) <= w+1 (which includes w = 1 with one or two
\* elements) the output has len(x) elements, each equal to mean(x).
C10_MovingAverageEdgesAmended ==
    (pc = "returned" /\ call.fn = "moving_average") =>
        /\ (call.w = 1 /\ Len(call.x) > 2 => ret.val = call.x)
        /\ (Len(call.x) <= call.w + 1 =>
                /\ Len(ret.val) = Len(call.x)
                /\ \A i \in 1..Len(ret.val) : ret.val[i] = Mean(call.x))

\* C10 witness: a window of 1 on two different values returns their mean twice
C10_Witness ==
    /\ pc = "returned" /\ call.fn = "moving_average"
    /\ call.w = 1 /\ call.x = <<R(0), R(1)>>
    /\ ret.val = <<<<1, 2>>, <<1, 2>>>>

\* a step in which a tracker reports failure (lines 643-646, 650-653)
TrackerLostStep == pc \in {"result", "resultMen"} /\ pc' = "stop"

\* C1 (as stated): when a tracker reports failure with skip_frames = k, the
\* truncation removes exactly 3*(k+1) tail entries from every tracked trajectory
\* that holds at least that many entries.
C1_TrackerLostRemoves ==
    [][ (TrackerLostStep /\ Len(bboxes.Woman) >= 3 * (params.skip_frames + 1)) =>
            /\ Len(bboxes'.Woman) = Len(bboxes.Woman) - 3 * (params.skip_frames + 1)
            /\ params.track_men =>
                   Len(bboxes'.Men) = Len(bboxes.Men) - 3 * (params.skip_frames + 1) ]_vars

\* C2: when both targets are tracked the two trajectories have the same length
\* after seeding, after every pair of append_interpolated_bbox calls, after a
\* truncation (operator quit, either tracker lost) and when calculate_score runs.
\* Seeding and the pair of appends are single steps here, so these are all the
\* states of the pipeline.
C2_TrajectoryLengthsAgree ==
    params.track_men => Len(bboxes.Woman) = Len(bboxes.Men)

\* C2 witness: the second tracker failed and the truncation left entries behind
C2_Witness ==
    /\ params.track_men
    /\ pc = "stop" /\ status = "Tracking Men Lost"
    /\ Len(bboxes.Woman) > 1 /\ Len(bboxes.Men) > 1

InRange(sc, lo, hi) == \A i \in 1..Len(sc) : RLe(R(lo), sc[i]) /\ RLe(sc[i], R(hi))

\* the direction run() calibrates
CalibratedDirection == IF params.direction = "x" THEN "x" ELSE "y"

\* C3 (as stated): once calculate_score has run every element of score.x and
\* score.y is in [0, 100]; after a calibration with the operator's values
\* (desired_min, desired_max) the calibrated score has exactly that min and max.
C3_ScoreRange ==
    /\ pc \in {"tracked", "raised"} =>
          InRange(score.x, 0, 100) /\ InRange(score.y, 0, 100)
    /\ (pc \in {"check", "offsets", "actions", "done"} /\ calib.decoded) =>
          /\ RMin(score[CalibratedDirection]) = R(calib.desired[1])
          /\ RMax(score[CalibratedDirection]) = R(calib.desired[2])

\* C8: when the score has fewer than min_frames entries after tracking, run()
\* adds no action, never opens the calibration dialogue and signals completion
\* exactly once, with the insufficient-tracking suffix and success = false.
C8_InsufficientTracking ==
    (pc \in {"tracked", "check", "done"} /\ Len(score.y) < params.min_frames) =>
        /\ funscript = <<>>
        /\ calib.asked = 0 /\ calib.desired = <<>>
        /\ pc # "done" => completed = <<>>
        /\ pc = "done" => completed = << [status |-> status,
                                          suffix |-> " -> Tracking time insufficient",
                                          success |-> FALSE] >>

\* C8 witness: the operator quit, too little was left, and run() has finished
C8_Witness ==
    /\ pc = "done" /\ Len(score.y) < params.min_frames
    /\ Len(score.y) > 1
    /\ status = "Tracking stopped by user"
    /\ Len(completed) = 1 /\ ~completed[1].success

\* the box at parameter i/(k+1) on the straight line from prev to new
OnLine(prev, new, i, k) ==
    [c \in 1..4 |-> RAdd(RMul(RSub(R(1), RDiv(R(i), R(k + 1))), prev[c]),
                         RMul(RDiv(R(i), R(k + 1)), new[c]))]

\* the trajectory C9 expects after appending new with skip_frames = k
LinearAppend(traj, new, k) ==
    IF k > 0 /\ Len(traj) > 0
    THEN traj \o [i \in 1..k |-> OnLine(traj[Len(traj)], new, i, k)] \o <<new>>
    ELSE Append(traj, new)

\* C9 (as stated): appending a box to a non-empty trajectory with skip_frames =
\* k > 0 inserts exactly k boxes before it, the i-th on the straight line from
\* the previous tail to the new box at i/(k+1); otherwise only the box is appended.
C9_InterpolationLinear ==
    [][ (pc = "process" /\ pc' = "result") =>
            /\ bboxes'.Woman = LinearAppend(bboxes.Woman, bboxWoman, params.skip_frames)
            /\ params.track_men =>
                   bboxes'.Men = LinearAppend(bboxes.Men, bboxMen, params.skip_frames) ]_vars

\* C6 (as stated): every action run() passes to the script has a position that
\* is an integer in [0, 99], for every calibrated score, extrema set and offsets.
C6_PositionsIntegerInRange ==
    \A i \in 1..Len(funscript) :
        /\ RIsInt(funscript[i].pos)
        /\ RLe(R(0), funscript[i].pos) /\ RLe(funscript[i].pos, R(99))

\* the scenario of C7: y score calibrated to 20..80, top_threshold 5, no point
\* offset below zero, run() done
C7Scenario ==
    /\ pc = "done" /\ params.direction = "y"
    /\ calib.desired = <<20, 80>> /\ params.top_threshold = R(5)
    /\ RLe(R(0), params.top_points_offset) /\ RLe(R(0), params.bottom_points_offset)

\* C7 (as stated): in that scenario a max-group extremum at the global maximum
\* is emitted with position 80 and a max-group extremum whose score is 78 is
\* emitted with position 78.
C7_MaxGroupPositions ==
    C7Scenario =>
        \A i \in 1..Len(funscript) :
            funscript[i].group = "max" =>
                /\ score.y[funscript[i].idx + 1] = R(80) => funscript[i].pos = R(80)
                /\ score.y[funscript[i].idx + 1] = R(78) => funscript[i].pos = R(78)

\* C7 (amended): in that scenario a max-group
\* extremum at the global maximum and a max-group extremum whose score is 78 are
\* both emitted with position 80 (78 > 80 - 5); a max-group extremum is emitted
\* with its own rounded score only when its offset score is at most 75.
C7_MaxGroupPositionsAmended ==
    C7Scenario =>
        \A i \in 1..Len(funscript) :
            funscript[i].group = "max" =>
                /\ score.y[funscript[i].idx + 1] = R(80) => funscript[i].pos = R(80)
                /\ score.y[funscript[i].idx + 1] = R(78) => funscript[i].pos = R(80)
                /\ RLe(output_score[funscript[i].idx + 1], R(75)) =>
                       funscript[i].pos = R(PyRound(output_score[funscript[i].idx + 1]))

\* C7 witness: no offsets, the max group holds the global maximum and the 78
\* extremum, and both were emitted with position 80
C7_Witness ==
    /\ C7Scenario
    /\ params.top_points_offset = R(0) /\ params.bottom_points_offset = R(0)
    /\ \E i, j \in 1..Len(funscript) :
          /\ funscript[i].group = "max" /\ score.y[funscript[i].idx + 1] = R(78)
          /\ funscript[i].pos = R(80)
          /\ funscript[j].group = "max" /\ score.y[funscript[j].idx + 1] = R(80)
          /\ funscript[j].pos = R(80)

\* smoothed[i] > avg[i] for the 0-based index i of the signal categorize_points got
AboveAverage(i) ==
    RLt(moving_average(call.signal, AvgWindow(params.fps))[i + 1],
        moving_average(call.signal, 3)[i + 1])

\* C11: categorize_points splits the given indices into two disjoint groups
\* that together hold every given index (as often as it was given); an index
\* is in 'max' exactly when smoothed[i] > avg[i] and in 'min' otherwise.
C11_CategorizePartition ==
    (pc = "returned" /\ call.fn = "categorize_points") =>
        LET g == ret.val IN
        /\ Range(g.min) \cap Range(g.max) = {}
        /\ \A i \in 0..(Len(call.signal) - 1) :
               Count(g.min, i) + Count(g.max, i) = Count(call.points, i)
        /\ \A i \in Range(g.max) : AboveAverage(i)
        /\ \A i \in Range(g.min) : ~AboveAverage(i)

\* C11 witness: a call that put one index in each group
C11_Witness ==
    /\ pc = "returned" /\ call.fn = "categorize_points"
    /\ Len(ret.val.min) = 1 /\ Len(ret.val.max) = 1

Targets == {"Woman", "Men"}

\* frames given to update() whose result() was not taken yet
InFlight(t) == trackers[t].submitted - trackers[t].accepted

\* C12: in the tracking loop each tracker's update(frame) and result() calls
\* strictly alternate, update first: at most one frame per tracker is in
\* flight, update() is only called with none in flight and result() only with
\* one, so the i-th result taken answers the i-th frame given; and the box
\* appended to a trajectory in one iteration is the result taken in the
\* previous iteration.
C12_TrackerAlternation ==
    /\ [](\A t \in Targets : InFlight(t) \in {0, 1})
    /\ [][\A t \in Targets :
            /\ trackers'[t].submitted # trackers[t].submitted =>
                   /\ trackers'[t].submitted = trackers[t].submitted + 1
                   /\ InFlight(t) = 0
            /\ trackers'[t].accepted # trackers[t].accepted =>
                   /\ trackers'[t].accepted = trackers[t].accepted + 1
                   /\ InFlight(t) = 1]_vars
    /\ [][(pc = "process" /\ pc' = "result") =>
            /\ trackers.Woman.accepted >= 1 /\ InFlight("Woman") = 1
            /\ bboxes'.Woman[Len(bboxes'.Woman)] = trackers.Woman.last
            /\ params.track_men =>
                   /\ trackers.Men.accepted >= 1 /\ InFlight("Men") = 1
                   /\ bboxes'.Men[Len(bboxes'.Men)] = trackers.Men.last]_vars

\* C12 witness: both targets tracked, the result of the second frame was
\* appended while the third frame is in flight
C12_Witness ==
    /\ params.track_men /\ pc = "result"
    /\ trackers.Woman.submitted = 3 /\ trackers.Woman.accepted = 2
    /\ trackers.Men.submitted = 3 /\ trackers.Men.accepted = 2
    /\ bboxes.Woman[Len(bboxes.Woman)] = trackers.Woman.last
    /\ bboxes.Men[Len(bboxes.Men)] = trackers.Men.last

\* C13 (as stated): on every exit path of the tracking loop the frame source and
\* every active tracker are stopped before tracking() returns, and no tracker
\* is left with a frame given to it whose result is never taken.
C13_StoppedOnExit ==
    pc \in {"tracked", "raised", "check", "offsets", "actions", "done"} =>
        /\ video.stopped
        /\ \A t \in Targets :
               trackers[t].active => (trackers[t].stopped /\ InFlight(t) = 0)

\* C14: under every interleaving of the listener thread and the control
\* thread's polls the keypress queue never holds more than 32 keys, on_key_press
\* never waits in put(), a key arriving while the queue is full is dropped
\* leaving the queued keys unchanged, and a poll never waits in get() on an
\* empty queue.
C14_KeypressQueue ==
    /\ [](Len(keypress_queue) <= 32)
    /\ [](listener.pc = "put" => Len(keypress_queue) < keypress_queue_maxsize)
    /\ [](control.pc = "get" => Len(keypress_queue) > 0)
    /\ [][(listener.pc = "idle" /\ listener' # listener /\ Len(keypress_queue) = 32) =>
            (keypress_queue' = keypress_queue /\ listener'.pc = "idle")]_vars

\* C14 witness: the queue is full, the listener is between keys and the control
\* thread is about to take a key
C14_Witness ==
    /\ pc = "keys" /\ Len(keypress_queue) = 32
    /\ listener.pc = "idle" /\ control.pc = "get"

\* the coordinate difference c (1 = x, 2 = y) of the trajectories is the same
\* at every step
ConstantDifference(c) ==
    LET raw == RawScore(bboxes, params.track_men, c)
    IN  \A i \in 1..Len(raw) : raw[i] = raw[1]

AllZero(sc) == \A i \in 1..Len(sc) : sc[i] = R(0)
SpansFullRange(sc) ==
    /\ \A i \in 1..Len(sc) : sc[i] # NaN
    /\ RMin(sc) = R(0) /\ RMax(sc) = R(100)

\* C15 (as stated): when one coordinate of the trajectory difference is the
\* same at every step of a trajectory with at least two entries and the other
\* is not, calculate_score completes, the score of that coordinate is all 0
\* and the score of the other coordinate spans the full [0, 100].
C15_ConstantCoordinate ==
    (pc = "returned" /\ call.fn = "calculate_score" /\ Len(bboxes.Woman) >= 2) =>
        /\ (ConstantDifference(2) /\ ~ConstantDifference(1)) =>
               (ret.err = "none" /\ AllZero(score.y) /\ SpansFullRange(score.x))
        /\ (ConstantDifference(1) /\ ~ConstantDifference(2)) =>
               (ret.err = "none" /\ AllZero(score.x) /\ SpansFullRange(score.y))

ReturnedDirectionChanges == pc = "returned" /\ call.fn = "get_direction_changes"

\* C16 (as stated): every index returned by get_direction_changes(s, L) is a
\* valid index into s, i.e. lies in [0, len(s)).
C16_ChangepointsInRange ==
    ReturnedDirectionChanges =>
        \A k \in 1..Len(ret.val) : 0 <= ret.val[k] /\ ret.val[k] < Len(call.signal)

\* the trajectory C17 expects after removing n tail entries
WithoutTail(traj, n) == IF Len(traj) >= n THEN SubSeq(traj, 1, Len(traj) - n) ELSE <<>>

\* C17 (as stated): on operator quit the tracking loop removes
\* 3 * round(avg_tracking_fps + 1) tail entries from every tracked trajectory
\* (or empties them when they are shorter) and ends with the status
\* 'Tracking stopped by user'.
C17_QuitTruncation ==
    [][(pc = "process" /\ pc' = "stop") =>
         LET n == 3 * PyRound(RAdd(get_average_tracking_fps(tracking_fps'), R(1)))
             appended == AppendPair(bboxes)
         IN  /\ status' = "Tracking stopped by user"
             /\ bboxes'.Woman = WithoutTail(appended.Woman, n)
             /\ params.track_men => bboxes'.Men = WithoutTail(appended.Men, n)]_vars

\* the direction C18 gives the monotone index m (0-based) of signal
StepDirection(signal, m) == IF RLt(signal[m + 1], signal[m + 2]) THEN 1 ELSE -1

\* the changepoints C18 describes: every monotone index, the last one included,
\* whose direction differs from that of its predecessor in the list of
\* monotone indices, reported with the offset min(M) the code adds
DescribedChangepoints(signal, filter_len) ==
    IF Len(signal) < filter_len THEN <<>>
    ELSE LET M == filtered_indexe(signal, filter_len)
             Differs(k) == StepDirection(signal, M[k]) # StepDirection(signal, M[k - 1])
             ks == SelectSeq([k \in 1..(Len(M) - 1) |-> k + 1], Differs)
         IN  [j \in 1..Len(ks) |-> M[ks[j]] + M[1]]

\* C18 (as stated): get_direction_changes(s, L) gives each monotone index m the
\* direction +1 if s[m] < s[m+1] else -1 and reports a changepoint at every
\* monotone index (including the last one) whose direction differs from that
\* of its predecessor; for the triangle wave 0,1,2,3,2,1,0,1,2,3,2,1,0 and
\* L = 2 it returns 3, 6 and 9.
C18_DirectionChanges ==
    ReturnedDirectionChanges =>
        /\ ret.val = DescribedChangepoints(call.signal, call.filter_len)
        /\ (call.signal = TriangleWave /\ call.filter_len = 2) => ret.val = <<3, 6, 9>>

MaxOf(S) == CHOOSE x \in S : \A y \in S : y <= x
MinOf(S) == CHOOSE x \in S : \A y \in S : x <= y

\* C19 (as stated): for a non-empty sorted list xs and a value v,
\* find_nearest(xs, v, 'left') returns the greatest element of xs that is <= v
\* and find_nearest(xs, v, 'right') the least element that is >= v (so v itself
\* when v is in xs); when there is no such element the nearest endpoint of xs
\* is returned; any other side fails with an error.
C19_FindNearest ==
    (pc = "returned" /\ call.fn = "find_nearest") =>
        LET xs == call.array
            v  == call.value
            notAfter  == { e \in Range(xs) : e <= v }
            notBefore == { e \in Range(xs) : e >= v }
        IN  /\ call.side = "left" =>
                  /\ ret.err = "none"
                  /\ ret.val = IF notAfter # {} THEN MaxOf(notAfter) ELSE xs[1]
            /\ call.side = "right" =>
                  /\ ret.err = "none"
                  /\ ret.val = IF notBefore # {} THEN MinOf(notBefore) ELSE xs[Len(xs)]
            /\ call.side \notin {"left", "right"} => ret.err # "none"

\* max(1, round(fps * threshold_ms) / 1000) with threshold_ms = 110
TemporalGuard ==
    LET t == RDiv(R(PyRound(RMul(params.fps, R(110)))), R(1000))
    IN  IF RLe(t, R(1)) THEN R(1) ELSE t

\* C20: in the list merge_points returns, every point that was added from E is
\* farther than merge_time_threshold from every other element of the list,
\* whatever the order of the candidates in E.
C20_AddedPointsApart ==
    (pc = "returned" /\ call.fn = "merge_points" /\ ret.err = "none") =>
        \A k \in 1..Len(ret.val) :
            ret.val[k] \notin Range(call.base_points) =>
                \A j \in 1..Len(ret.val) :
                    j # k => RLt(TemporalGuard, R(Abs(ret.val[k] - ret.val[j])))

\* C20 witness: two candidates one index apart, the larger one first; the first
\* was added between the base points and the second was kept out by it
C20_Witness ==
    /\ pc = "returned" /\ call.fn = "merge_points" /\ ret.err = "none"
    /\ Len(call.additional_points) = 2
    /\ call.additional_points[1] = call.additional_points[2] + 1
    /\ call.additional_points[1] \in Range(ret.val)
    /\ call.additional_points[2] \notin Range(ret.val)
    /\ \A b \in Range(call.base_points) : Abs(call.additional_points[2] - b) >= 2

\* C21: for every signal x and every window w >= 1, moving_average(x, w)
\* returns a sequence of exactly len(x) elements, including signals with
\* w+1 < len(x) < 2w.
C21_MovingAverageLength ==
    (pc = "returned" /\ call.fn = "moving_average") =>
        Len(ret.val) = Len(call.x)

\* C22: VR projection tuning changes only a working copy of the projection
\* record: after any sequence of w/s/q key presses the shared PROJECTION
\* defaults are unchanged, as they are after get_flat_projection_config.
C22_ProjectionDefaultsUnchanged ==
    call.fn \in {"get_vr_projection_config", "get_flat_projection_config"} =>
        PROJECTION = call.loaded

\* the operator's quit has been observed by the tracking loop
QuitObserved == status = "Tracking stopped by user"

\* C23: an operator 'q' press during tracking latches quit exactly once: the
\* loop then finishes the in-flight iteration (awaits the tracker results of
\* the frame already submitted), truncates the trajectory tail once, and
\* exits; no further frame is read or submitted after the quit is observed.
C23_QuitFinishesIteration ==
    /\ [][QuitObserved =>
            /\ QuitObserved'
            /\ frame_num' = frame_num /\ video'.left = video.left
            /\ \A t \in Targets : trackers'[t].submitted = trackers[t].submitted
            /\ bboxes' = bboxes]_vars
    /\ [][(~QuitObserved /\ QuitObserved') =>
            /\ pc' = "stop"
            /\ bboxes' = delete_last_tracking_predictions(AppendPair(bboxes),
                             params.track_men,
                             PyInt(RAdd(get_average_tracking_fps(tracking_fps'), R(1))) * 3)]_vars
    /\ []((QuitObserved /\ pc \in {"tracked", "raised"}) =>
            \A t \in Targets : trackers[t].active => InFlight(t) = 0)

\* the score of the chosen direction
ChosenScore(sc) == IF params.direction = "x" THEN sc.x ELSE sc.y

\* C24: for either chosen direction (x or y), get_score_with_offset returns a
\* copy of the chosen-direction score in which every index in extrema.min has
\* bottom_points_offset added and every index in extrema.max has
\* top_points_offset added, each clamped to [min(score), max(score)], all other
\* indices are unchanged, and the stored score itself is not modified.
C24_ScoreWithOffset ==
    (pc = "actions" /\ call.fn = "get_score_with_offset") =>
        LET chosen == ChosenScore(call.score)
            lo == RMin(chosen)
            hi == RMax(chosen)
        IN  /\ score = call.score
            /\ Len(output_score) = Len(chosen)
            /\ \A i \in 1..Len(chosen) :
                 LET inMin == (i - 1) \in Range(idx_dict.min)
                     inMax == (i - 1) \in Range(idx_dict.max)
                 IN  /\ (inMin /\ ~inMax) =>
                           output_score[i] =
                               Clamp(lo, hi, RAdd(chosen[i], params.bottom_points_offset))
                     /\ (inMax /\ ~inMin) =>
                           output_score[i] =
                               Clamp(lo, hi, RAdd(chosen[i], params.top_points_offset))
                     /\ (~inMin /\ ~inMax) => output_score[i] = chosen[i]

\* a step that leaves the tracking loop
LoopExit == pc \in {"loop", "process", "result", "resultMen"} /\ pc' = "stop"

\* the trajectories at the exit before any truncation
BeforeTruncation == IF pc = "process" THEN AppendPair(bboxes) ELSE bboxes

Tracked(t) == t = "Woman" \/ params.track_men

\* C25 (as stated): at every exit of the tracking loop, before any truncation,
\* each tracked trajectory holds the seed box plus (k+1) entries for every
\* accepted tracker result except the most recently accepted one: with n >= 1
\* accepted results its length is 1 + (n-1)*(k+1).
C25_LastResultNotInTrajectory ==
    [][LoopExit =>
         \A t \in Targets :
            (Tracked(t) /\ trackers[t].accepted >= 1) =>
                Len(BeforeTruncation[t]) =
                    1 + (trackers[t].accepted - 1) * (params.skip_frames + 1)]_vars

\* C25 (amended): the most recently accepted result of a tracker is missing
\* from its trajectory only when it was accepted in the iteration that exits or
\* the one before an exit at the read: with n accepted results the length
\* before truncation is 1 + (n-1)*(k+1) when no frame is in flight for that
\* tracker (n >= 1), and 1 + n*(k+1) when the exit is a quit or comes before
\* that tracker's result of the current frame was accepted.
C25_LastResultNotInTrajectoryAmended ==
    [][LoopExit =>
         \A t \in Targets :
            Tracked(t) =>
                Len(BeforeTruncation[t]) =
                    1 + (params.skip_frames + 1) *
                        (IF InFlight(t) = 1 THEN trackers[t].accepted
                         ELSE IF trackers[t].accepted >= 1 THEN trackers[t].accepted - 1
                         ELSE 0)]_vars

\* C25 witness: the stream ended with one frame skipped between tracked frames
\* and three or more results accepted; the trajectory holds the seed and two
\* boxes for every result but the last
C25_Witness ==
    /\ pc = "stop" /\ status = "End of video reached"
    /\ params.skip_frames = 1
    /\ trackers.Woman.accepted >= 3 /\ InFlight("Woman") = 0
    /\ Len(bboxes.Woman) = 1 + (trackers.Woman.accepted - 1) * 2

\* C26: merge_points never adds a candidate that is not strictly between two
\* points already in the merged list: for non-empty B the result has the same
\* minimum and the same maximum as B, whatever E contains.
C26_MergeKeepsExtremes ==
    (pc = "returned" /\ call.fn = "merge_points" /\ ret.err = "none"
       /\ Len(call.base_points) > 0) =>
        /\ MinOf(Range(ret.val)) = MinOf(Range(call.base_points))
        /\ MaxOf(Range(ret.val)) = MaxOf(Range(call.base_points))
        /\ \A k \in 1..Len(ret.val) :
              ret.val[k] \notin Range(call.base_points) =>
                  /\ MinOf(Range(call.base_points)) < ret.val[k]
                  /\ ret.val[k] < MaxOf(Range(call.base_points))

\* C26 witness: on a flat signal a candidate two above the largest base point
\* was left out and one between the base points was added
C26_Witness ==
    /\ pc = "returned" /\ call.fn = "merge_points" /\ ret.err = "none"
    /\ params.fps = R(10)
    /\ Len(call.base_points) = 2
    /\ \A i \in 1..Len(call.signal) : call.signal[i] = R(0)
    /\ \E e \in Range(call.additional_points) : e >= MaxOf(Range(call.base_points)) + 2
    /\ \E e \in Range(call.additional_points) :
          /\ e \in Range(ret.val)
          /\ e \notin Range(call.base_points)

\* the base points decimate starts from
BasePoints ==
    IF call.base_point_algorithm = "direction_changes"
    THEN get_direction_changes(call.signal, direction_change_filter_len)
    ELSE get_local_min_max_points(call.signal, params.fps, 3)

\* an additional point algorithm of the call proposes a candidate while there
\* is no base point (get_edge_points proposes none for fewer than two points)
CandidateWithoutBase ==
    /\ BasePoints = <<>>
    /\ "high_second_derivative" \in Range(call.additional_points_algorithms)
    /\ get_high_second_derivative_points(call.signal, params.fps,
           high_second_derivative_points_threshold) # <<>>

\* C27: when the base-point algorithm finds no base point and an
\* additional-point algorithm proposes at least one candidate, decimate
\* (through merge_points with an empty base list) fails with an index error
\* instead of returning a list of indices.
C27_DecimateEmptyBaseRaises ==
    (pc = "returned" /\ call.fn = "decimate" /\ CandidateWithoutBase) =>
        ret.err = "IndexError"

\* C27 witness: a step signal has no direction change and one point of high
\* second derivative; decimate has raised IndexError
C27_Witness ==
    /\ pc = "returned" /\ call.fn = "decimate"
    /\ call.signal = <<R(0), R(0), R(50), R(50), R(50)>>
    /\ call.base_point_algorithm = "direction_changes"
    /\ call.additional_points_algorithms = <<"high_second_derivative">>
    /\ CandidateWithoutBase
    /\ ret.err = "IndexError"

====
